---- MODULE Spec2Model ----
(***************************************************************************)
(* A model of jsparagus' grammar layer (src/jsparagus/grammar.py): the     *)
(* lookahead-restriction algebra and the validation performed by           *)
(* Grammar.__init__; and of the desugarer of the annotated notation        *)
(* (src/js_parser/parse_esgrammar.py): ESGrammarBuilder.nt_def with the    *)
(* default reducers and the ASI split, and finish_grammar.                 *)
(*                                                                         *)
(* Python values are records tagged with a `kind` field, so that Python's  *)
(* `==` between values of different types (always False) is TLA+ equality  *)
(* of records of different kinds.  A Python str is Str(s) with s a TLA+    *)
(* string; a Python list or tuple is a sequence; a dict is a sequence of   *)
(* [key, def] entries in insertion order.                                  *)
(***************************************************************************)
EXTENDS Integers, Sequences, FiniteSets, TLC

VARIABLES
    pc,                 \* which operation is about to run / has run
    a, b,               \* arguments of lookahead_intersect
    rule,               \* value returned by lookahead_intersect
    nonterminals,       \* Grammar.__init__ argument: dict, as a sequence of entries
    goal_nts,           \* Grammar.__init__ argument: None or a list of goals
    variable_terminals, \* Grammar.__init__ argument: sequence of str
    type_info,          \* Grammar.__init__ argument: None or (nt_types, methods)
    grammar,            \* outcome of Grammar.__init__: a Grammar or a raised error
    self,               \* the Grammar with_nonterminals was called on, if any
    call,               \* arguments of the call of the desugarer under way
    result              \* what that call returned or raised

vars == <<pc, a, b, rule, nonterminals, goal_nts, variable_terminals,
          type_info, grammar, self, call, result>>

(***************************************************************************)
(* Bounds of the model.                                                    *)
(***************************************************************************)
AlphabetSize == 3
MaxBody == 2
MaxGoals == 2
MaxRhs == 2
MaxFragments == 2
MaxNtDefs == 3
MaxNonterminals == 2
MaxPop == 2
MaxReplay == 2
MaxInterns == 3

(***************************************************************************)
(* Generic helpers.                                                        *)
(***************************************************************************)
Range(s) == {s[i] : i \in DOMAIN s}

SeqsUpTo(S, n) == UNION {[1..k -> S] : k \in 0..n}

(***************************************************************************)
(* Python values.                                                          *)
(***************************************************************************)
None == [kind |-> "None"]
Unset == [kind |-> "unset"]
Str(s) == [kind |-> "str", s |-> s]
PyInt(i) == [kind |-> "int", i |-> i]
Bool(v) == [kind |-> "bool", v |-> v]

(***************************************************************************)
(* grammar.py: LookaheadRule, lookahead_contains, lookahead_intersect.     *)
(***************************************************************************)
LookaheadRule(set, positive) ==
    [kind |-> "LookaheadRule", set |-> set, positive |-> positive]

lookahead_contains(r, t) ==
    \/ r = None
    \/ IF r.positive THEN t \in r.set ELSE t \notin r.set

lookahead_intersect_none_absorbs(x, y) ==
    IF x = None THEN x
    ELSE IF y = None THEN y
    ELSE IF x.positive
         THEN IF y.positive
              THEN LookaheadRule(x.set \cap y.set, TRUE)
              ELSE LookaheadRule(x.set \ y.set, TRUE)
         ELSE IF y.positive
              THEN LookaheadRule(y.set \ x.set, TRUE)
              ELSE LookaheadRule(x.set \cup y.set, FALSE)

lookahead_intersect_same_polarity_mixup(x, y) ==
    IF x = None THEN y
    ELSE IF y = None THEN x
    ELSE IF x.positive
         THEN IF y.positive
              THEN LookaheadRule(x.set \cup y.set, TRUE)
              ELSE LookaheadRule(x.set \ y.set, TRUE)
         ELSE IF y.positive
              THEN LookaheadRule(y.set \ x.set, TRUE)
              ELSE LookaheadRule(x.set \cap y.set, FALSE)

lookahead_intersect_subtract_reversed(x, y) ==
    IF x = None THEN y
    ELSE IF y = None THEN x
    ELSE IF x.positive
         THEN IF y.positive
              THEN LookaheadRule(x.set \cap y.set, TRUE)
              ELSE LookaheadRule(x.set \ y.set, TRUE)
         ELSE IF y.positive
              THEN LookaheadRule(x.set \ y.set, TRUE)
              ELSE LookaheadRule(x.set \cup y.set, FALSE)

lookahead_intersect_negative_result(x, y) ==
    IF x = None THEN y
    ELSE IF y = None THEN x
    ELSE IF x.positive
         THEN IF y.positive
              THEN LookaheadRule(x.set \cap y.set, TRUE)
              ELSE LookaheadRule(x.set \ y.set, FALSE)
         ELSE IF y.positive
              THEN LookaheadRule(y.set \ x.set, TRUE)
              ELSE LookaheadRule(x.set \cup y.set, FALSE)

lookahead_intersect(x, y) ==
    IF x = None THEN y
    ELSE IF y = None THEN x
    ELSE IF x.positive
         THEN IF y.positive
              THEN LookaheadRule(x.set \cap y.set, TRUE)
              ELSE LookaheadRule(x.set \ y.set, TRUE)
         ELSE IF y.positive
              THEN LookaheadRule(y.set \ x.set, TRUE)
              ELSE LookaheadRule(x.set \cup y.set, FALSE)

(***************************************************************************)
(* Python str methods used by the validation, on TLA+ strings.             *)
(***************************************************************************)
Letters == {"a", "b", "c", "d", "e", "f", "g", "h", "i", "j", "k", "l", "m",
            "n", "o", "p", "q", "r", "s", "t", "u", "v", "w", "x", "y", "z",
            "A", "B", "C", "D", "E", "F", "G", "H", "I", "J", "K", "L", "M",
            "N", "O", "P", "Q", "R", "S", "T", "U", "V", "W", "X", "Y", "Z"}
Digits == {"0", "1", "2", "3", "4", "5", "6", "7", "8", "9"}

CharAt(s, i) == SubSeq(s, i, i)
Chars(s) == {CharAt(s, i) : i \in 1..Len(s)}

isidentifier(s) ==
    /\ Len(s) > 0
    /\ CharAt(s, 1) \in Letters \cup {"_"}
    /\ Chars(s) \subseteq Letters \cup Digits \cup {"_"}

isdigit(s) == Len(s) > 0 /\ Chars(s) \subseteq Digits

\* s.partition(' '): <<head, separator, tail>> around the first space
partition(s) ==
    LET spaces == {i \in 1..Len(s) : CharAt(s, i) = " "}
    IN IF spaces = {} THEN <<s, "", "">>
       ELSE LET i == CHOOSE k \in spaces : \A m \in spaces : k <= m
            IN <<SubSeq(s, 1, i - 1), " ", SubSeq(s, i + 1, Len(s))>>

(***************************************************************************)
(* grammar.py: the values a grammar is made of.                            *)
(***************************************************************************)
Nt(name, args) == [kind |-> "Nt", name |-> name, args |-> args]
InitNt(goal) == [kind |-> "InitNt", goal |-> goal]
Optional(inner) == [kind |-> "Optional", inner |-> inner]
ErrorToken == [kind |-> "ErrorToken"]
Var(name) == [kind |-> "Var", name |-> name]
Production(body, action, condition) ==
    [kind |-> "Production", body |-> body, action |-> action,
     condition |-> condition]
NtDef(params, rhs_list) ==
    [kind |-> "NtDef", params |-> params, rhs_list |-> rhs_list]
CallMethod(method, args) ==
    [kind |-> "CallMethod", method |-> method, args |-> args]
Some(inner) == [kind |-> "Some", inner |-> inner]
\* a Python list where the code also accepts values of other types
PyList(items) == [kind |-> "list", items |-> items]
\* Production.condition when present: the tuple (param, value)
Condition(param, value) == [kind |-> "tuple", param |-> param, value |-> value]
Accept == Str("accept")
\* an entry of the nonterminals dict
Entry(key, def) == [key |-> key, def |-> def]

is_concrete_element_counting_error_token(e) == e.kind # "LookaheadRule"

is_concrete_element(e) == e.kind # "LookaheadRule" /\ e # ErrorToken

\* the first element of a sequence of error tags that is an error
Ok == "ok"
FirstError(tags) ==
    IF \A i \in DOMAIN tags : tags[i] = Ok THEN Ok
    ELSE tags[CHOOSE i \in DOMAIN tags :
                  /\ tags[i] # Ok
                  /\ \A j \in DOMAIN tags : j < i => tags[j] = Ok]

(***************************************************************************)
(* Grammar.__init__: the information gathered from the keys alone.         *)
(***************************************************************************)
KeySet(nts) == {nts[i].key : i \in DOMAIN nts}

keys_are_nt(nts) == nts[1].key.kind = "Nt"

key_type_ok(key, kan) ==
    IF kan THEN key.kind = "Nt" ELSE key.kind \in {"str", "InitNt"}

key_name(entry, kan) == IF kan THEN entry.key.name ELSE entry.key

key_param_names(entry, kan) ==
    IF kan
    THEN [i \in DOMAIN entry.key.args |-> entry.key.args[i][1]]
    ELSE IF entry.def.kind = "NtDef" THEN entry.def.params ELSE <<>>

\* the loop over the keys (for key in nonterminals), as the error it raises
gather_raises(nts, kan) ==
    FirstError([i \in DOMAIN nts |->
        IF ~key_type_ok(nts[i].key, kan)
        THEN "ValueError: conflicting key types in nonterminals dict"
        ELSE IF \E j \in 1..(i - 1) :
                   /\ key_type_ok(nts[j].key, kan)
                   /\ key_name(nts[j], kan) = key_name(nts[i], kan)
                   /\ key_param_names(nts[j], kan) # key_param_names(nts[i], kan)
        THEN "ValueError: conflicting parameter name lists"
        ELSE Ok])

nt_params(nts, kan) ==
    LET names == {key_name(nts[i], kan) : i \in DOMAIN nts}
        first(n) == CHOOSE i \in DOMAIN nts :
                        /\ key_name(nts[i], kan) = n
                        /\ \A j \in 1..(i - 1) : key_name(nts[j], kan) # n
    IN [n \in names |-> key_param_names(nts[first(n)], kan)]

str_to_nt(nts, kan) ==
    LET params == nt_params(nts, kan)
    IN [n \in {m \in DOMAIN params : params[m] = <<>>} |-> Nt(n, <<>>)]

\* the variables the nested functions of Grammar.__init__ close over
Closure(nts, goals, vts) ==
    [nonterminals |-> nts,
     goal_nts |-> goals,
     variable_terminals |-> vts,
     keys_are_nt |-> keys_are_nt(nts),
     nt_params |-> nt_params(nts, keys_are_nt(nts)),
     str_to_nt |-> str_to_nt(nts, keys_are_nt(nts))]

(***************************************************************************)
(* Grammar.__init__.validate_element                                       *)
(***************************************************************************)
\* e not in nonterminals and e.name not in nonterminals
nt_is_unrecognized(G, e) ==
    /\ e \notin KeySet(G.nonterminals)
    /\ e.name \notin KeySet(G.nonterminals)

arg_names(e) == [i \in DOMAIN e.args |-> e.args[i][1]]

\* e.name in nt_params and args != nt_params[e.name]
nt_has_wrong_arguments_count_only(G, e) ==
    /\ e.name \in DOMAIN G.nt_params
    /\ Len(arg_names(e)) # Len(G.nt_params[e.name])

nt_has_wrong_arguments(G, e) ==
    /\ e.name \in DOMAIN G.nt_params
    /\ arg_names(e) # G.nt_params[e.name]

nt_has_undefined_variable(e, context_params) ==
    \E i \in DOMAIN e.args :
        /\ e.args[i][2].kind = "Var"
        /\ e.args[i][2].name \notin Range(context_params)

\* isinstance(e, str) branch: a bare name of a parameterized nonterminal
str_is_missing_parameters(G, e) ==
    /\ e \in DOMAIN G.nt_params
    /\ G.nt_params[e] # <<>>

\* validate_element on an element that is not an Optional.  The message of
\* the error for a bare parameterized name has five fields and is given
\* four values, so formatting it raises IndexError in place of ValueError.
validate_plain_element_raises(G, e, context_params) ==
    IF e.kind = "str"
    THEN IF str_is_missing_parameters(G, e)
         THEN "IndexError: Replacement index 4 out of range"
         ELSE Ok
    ELSE IF e.kind = "Nt"
    THEN IF nt_is_unrecognized(G, e)
         THEN "ValueError: unrecognized nonterminal"
         ELSE IF nt_has_wrong_arguments(G, e)
         THEN "ValueError: wrong arguments passed"
         ELSE IF nt_has_undefined_variable(e, context_params)
         THEN "ValueError: undefined variable"
         ELSE Ok
    ELSE IF e.kind = "LookaheadRule" \/ e = ErrorToken
    THEN Ok
    ELSE "TypeError: unrecognized element"

validate_optional_raises_inner_nt_unchecked(G, e, context_params) ==
    IF e.inner.kind \notin {"str", "Nt"}
    THEN "TypeError: unrecognized element in Optional"
    ELSE IF e.inner.kind = "Nt"
    THEN Ok
    ELSE validate_plain_element_raises(G, e.inner, context_params)

validate_optional_raises(G, e, context_params) ==
    IF e.inner.kind \notin {"str", "Nt"}
    THEN "TypeError: unrecognized element in Optional"
    ELSE validate_plain_element_raises(G, e.inner, context_params)

\* the error validate_element raises on e, or Ok
validate_element_raises(G, e, context_params) ==
    IF e.kind = "Optional"
    THEN validate_optional_raises(G, e, context_params)
    ELSE validate_plain_element_raises(G, e, context_params)

\* the value validate_element returns when it does not raise
validate_element(G, e) ==
    LET plain(x) == IF x.kind = "str" /\ x \in DOMAIN G.nt_params
                    THEN G.str_to_nt[x]
                    ELSE x
    IN IF e.kind = "Optional" THEN Optional(plain(e.inner)) ELSE plain(e)

\* the strings validate_element adds to all_terminals for e
element_terminals_adding_names(G, e) ==
    LET plain(x) == IF x.kind = "str" THEN <<x>> ELSE <<>>
    IN IF e.kind = "Optional" /\ e.inner.kind \in {"str", "Nt"}
       THEN plain(e.inner)
       ELSE plain(e)

element_terminals(G, e) ==
    LET plain(x) == IF x.kind = "str" /\ x \notin DOMAIN G.nt_params
                    THEN <<x>>
                    ELSE <<>>
    IN IF e.kind = "Optional" /\ e.inner.kind \in {"str", "Nt"}
       THEN plain(e.inner)
       ELSE plain(e)

(***************************************************************************)
(* Grammar.__init__.check_reduce_action                                    *)
(***************************************************************************)
concrete_len(body) ==
    Cardinality({j \in DOMAIN body : is_concrete_element(body[j])})

\* not (0 <= action < concrete_len)
index_out_of_range(i, body) == ~(0 <= i /\ i < concrete_len(body))

method_name_is_valid(m) ==
    \/ isidentifier(m)
    \/ LET parts == partition(m)
       IN parts[2] = " " /\ isidentifier(parts[1]) /\ isdigit(parts[3])

RECURSIVE check_reduce_action(_, _)
check_reduce_action(body, action) ==
    IF action.kind = "int"
    THEN IF index_out_of_range(action.i, body)
         THEN "ValueError: element number out of range"
         ELSE Ok
    ELSE IF action.kind = "CallMethod"
    THEN IF action.method.kind # "str"
         THEN "TypeError: method names must be strings"
         ELSE IF ~method_name_is_valid(action.method.s)
         THEN "ValueError: invalid method name"
         ELSE FirstError([k \in DOMAIN action.args |->
                             check_reduce_action(body, action.args[k])])
    ELSE IF action = None
    THEN Ok
    ELSE IF action.kind = "Some"
    THEN check_reduce_action(body, action.inner)
    ELSE "TypeError: unrecognized reduce expression"

(***************************************************************************)
(* Grammar.__init__.copy_rhs                                               *)
(***************************************************************************)
\* repr() of the values a key is made of, and '{}'.format(nt)
repr_arg(v) ==
    IF v.kind = "bool" THEN (IF v.v THEN "True" ELSE "False")
    ELSE "Var(name='" \o v.name \o "')"

RECURSIVE repr_pairs(_)
repr_pairs(args) ==
    IF args = <<>> THEN ""
    ELSE "('" \o args[1][1] \o "', " \o repr_arg(args[1][2]) \o ")"
         \o (IF Len(args) = 1 THEN "" ELSE ", " \o repr_pairs(Tail(args)))

repr_args(args) ==
    IF Len(args) = 1 THEN "(" \o repr_pairs(args) \o ",)"
    ELSE "(" \o repr_pairs(args) \o ")"

RECURSIVE repr(_)
repr(v) ==
    IF v.kind = "str" THEN "'" \o v.s \o "'"
    ELSE IF v.kind = "InitNt" THEN "InitNt(goal=" \o repr(v.goal) \o ")"
    ELSE IF v.args = <<>> THEN "Nt(" \o repr(v.name) \o ")"
    ELSE "Nt(" \o repr(v.name) \o ", " \o repr_args(v.args) \o ")"

format(nt) == IF nt.kind = "str" THEN nt.s ELSE repr(nt)

\* the action given to a bare list: propagate the only value, or call a
\* method named after the production
default_action(nt, i, sole_production, rhs) ==
    LET nargs == Cardinality({j \in DOMAIN rhs : is_concrete_element(rhs[j])})
    IN IF Len(rhs) = 1 /\ nargs = 1
       THEN PyInt(0)
       ELSE CallMethod(IF sole_production
                       THEN nt
                       ELSE Str(format(nt) \o " " \o ToString(i)),
                       [k \in 1..nargs |-> PyInt(k - 1)])

\* the Production a right-hand side stands for (a bare list is desugared)
as_production(nt, i, sole_production, rhs) ==
    IF rhs.kind = "list"
    THEN Production(rhs.items, default_action(nt, i, sole_production, rhs.items),
                    None)
    ELSE rhs

condition_raises(rhs, context_params) ==
    IF rhs.condition # None /\ rhs.condition.param \notin Range(context_params)
    THEN "TypeError: undefined parameter in conditional"
    ELSE Ok

\* if rhs.action != 'accept': check_reduce_action(nt, i, rhs, rhs.action)
action_raises(rhs) ==
    IF rhs.action # Accept
    THEN check_reduce_action(rhs.body, rhs.action)
    ELSE Ok

copy_rhs_raises(G, nt, i, sole_production, rhs0, context_params) ==
    LET rhs == as_production(nt, i, sole_production, rhs0)
    IN IF rhs.kind # "Production"
       THEN "TypeError: should be a Production or list of grammar symbols"
       ELSE FirstError(
                <<condition_raises(rhs, context_params), action_raises(rhs)>>
                \o [j \in DOMAIN rhs.body |->
                       validate_element_raises(G, rhs.body[j], context_params)])

copy_rhs(G, nt, i, sole_production, rhs0) ==
    LET rhs == as_production(nt, i, sole_production, rhs0)
    IN Production([j \in DOMAIN rhs.body |-> validate_element(G, rhs.body[j])],
                  rhs.action, rhs.condition)

\* the terminals copy_rhs adds to all_terminals
rhs_terminals(G, rhs0) ==
    LET body == IF rhs0.kind = "list" THEN rhs0.items ELSE rhs0.body
        from[j \in 0..Len(body)] ==
            IF j = 0 THEN <<>>
            ELSE from[j - 1] \o element_terminals(G, body[j])
    IN from[Len(body)]

(***************************************************************************)
(* Grammar.__init__.copy_nt_def                                            *)
(***************************************************************************)
def_params(nt_def) == IF nt_def.kind = "NtDef" THEN nt_def.params ELSE <<>>

def_rhs_list(nt_def) ==
    IF nt_def.kind = "NtDef" THEN nt_def.rhs_list ELSE nt_def.items

copy_nt_def_raises(G, nt, nt_def) ==
    IF nt_def.kind \notin {"NtDef", "list"}
    THEN "TypeError: should be either a list of right-hand sides or NtDef"
    ELSE LET rhs_list == def_rhs_list(nt_def)
             sole_production == Len(rhs_list) = 1
         IN FirstError([i \in DOMAIN rhs_list |->
                copy_rhs_raises(G, nt, i - 1, sole_production, rhs_list[i],
                                def_params(nt_def))])

copy_nt_def(G, nt, nt_def) ==
    LET rhs_list == def_rhs_list(nt_def)
        sole_production == Len(rhs_list) = 1
    IN NtDef(def_params(nt_def),
             [i \in DOMAIN rhs_list |->
                 copy_rhs(G, nt, i - 1, sole_production, rhs_list[i])])

nt_def_terminals(G, nt_def) ==
    LET rhs_list == def_rhs_list(nt_def)
        from[i \in 0..Len(rhs_list)] ==
            IF i = 0 THEN <<>>
            ELSE from[i - 1] \o rhs_terminals(G, rhs_list[i])
    IN from[Len(rhs_list)]

(***************************************************************************)
(* Grammar.__init__.check_nt_key                                           *)
(***************************************************************************)
\* nt.goal not in goal_nts
goal_is_not_listed(G, nt) == nt.goal \notin Range(G.goal_nts)

\* check_nt_key on a key that is a str or an InitNt
check_name_raises(G, nt) ==
    IF nt.kind = "str"
    THEN IF ~isidentifier(nt.s)
         THEN "ValueError: nonterminal names must be identifiers"
         ELSE IF nt \in Range(G.variable_terminals)
         THEN "TypeError: both a nonterminal and a variable terminal"
         ELSE Ok
    ELSE IF nt.kind = "InitNt"
    THEN IF nt.goal.kind # "Nt"
         THEN "TypeError: InitNt.goal should be a nonterminal"
         ELSE IF validate_element_raises(G, nt.goal, <<>>) # Ok
         THEN validate_element_raises(G, nt.goal, <<>>)
         ELSE IF goal_is_not_listed(G, nt)
         THEN "TypeError: nonterminal referenced by InitNt is not in the list of goals"
         ELSE Ok
    ELSE "TypeError: expected string keys in nonterminals dict"

check_nt_key_raises(G, nt) ==
    IF nt.kind = "Nt"
    THEN IF nt.name.kind \notin {"str", "InitNt"}
         THEN "TypeError: expected str or Nt(name=str, args=tuple) keys"
         ELSE IF check_name_raises(G, nt.name) # Ok
         THEN check_name_raises(G, nt.name)
         ELSE IF \E k \in DOMAIN nt.args : nt.args[k][2].kind # "bool"
         THEN "TypeError: expected tuple((str, bool)) args"
         ELSE Ok
    ELSE check_name_raises(G, nt)

(***************************************************************************)
(* Grammar.__init__.validate_nt                                            *)
(***************************************************************************)
\* rhs_list != expected, on lists of Productions: Production.__eq__ reads
\* other.body, so comparing a bare list with a Production raises
list_ne(rhs_list, expected) ==
    IF Len(rhs_list) # Len(expected) THEN "unequal"
    ELSE LET differ == {k \in DOMAIN rhs_list : rhs_list[k] # expected[k]}
         IN IF differ = {} THEN "equal"
            ELSE LET k == CHOOSE m \in differ : \A n \in differ : m <= n
                 IN IF rhs_list[k].kind # "Production"
                    THEN "AttributeError"
                    ELSE "unequal"

expected_init_forms(g) ==
    <<  <<Production(<<g>>, Accept, None)>>,
        <<Production(<<Optional(g)>>, Accept, None)>>,
        <<Production(<<>>, Accept, None), Production(<<g>>, Accept, None)>>  >>

init_form_any_accepted(nt, nt_def) == Ok

\* the check of the form of init productions
init_form_raises(nt, nt_def) ==
    IF nt_def.kind # "NtDef"
    THEN "TypeError: key must map to value of type NtDef"
    ELSE LET forms == expected_init_forms(nt.goal)
             cmp == [k \in DOMAIN forms |-> list_ne(nt_def.rhs_list, forms[k])]
         IN IF \E k \in DOMAIN cmp :
                   /\ cmp[k] = "equal"
                   /\ \A m \in 1..(k - 1) : cmp[m] = "unequal"
            THEN Ok
            ELSE IF \E k \in DOMAIN cmp : cmp[k] = "AttributeError"
            THEN "AttributeError: 'list' object has no attribute 'body'"
            ELSE "ValueError: not one of the expected forms"

validate_nt_raises(G, nt, nt_def) ==
    FirstError(<<check_nt_key_raises(G, nt),
                 IF nt.kind = "InitNt" THEN init_form_raises(nt, nt_def) ELSE Ok,
                 copy_nt_def_raises(G, nt, nt_def)>>)

(***************************************************************************)
(* Grammar.__init__: the body of the constructor.                          *)
(***************************************************************************)
Raise(error) == [kind |-> "raise", error |-> error]

\* OrderedSet / OrderedFrozenSet: a sequence without repetitions
OrderedSet(seq) ==
    LET from[i \in 0..Len(seq)] ==
            IF i = 0 THEN <<>>
            ELSE IF seq[i] \in Range(from[i - 1]) THEN from[i - 1]
            ELSE Append(from[i - 1], seq[i])
    IN from[Len(seq)]

\* goal_nts as copied or inferred from the arguments
copied_goal_nts(nts, goals) ==
    IF goals = None
    THEN (IF nts = <<>> THEN <<>> ELSE <<nts[1].key>>)
    ELSE goals.items

\* the loop `for nt, nt_def in nonterminals.items()`, as the error it raises
validate_all_raises(G) ==
    FirstError([i \in DOMAIN G.nonterminals |->
        validate_nt_raises(G, G.nonterminals[i].key, G.nonterminals[i].def)])

validated_nonterminals(G) ==
    [i \in DOMAIN G.nonterminals |->
        Entry(G.nonterminals[i].key,
              copy_nt_def(G, G.nonterminals[i].key, G.nonterminals[i].def))]

all_terminals(G) ==
    LET from[i \in 0..Len(G.nonterminals)] ==
            IF i = 0 THEN G.variable_terminals
            ELSE from[i - 1] \o nt_def_terminals(G, G.nonterminals[i].def)
    IN OrderedSet(from[Len(G.nonterminals)])

\* ok, as the loop over the goals computes it for one goal
goal_is_ok(G, goal) ==
    IF goal.kind = "str" THEN goal \in DOMAIN G.str_to_nt
    ELSE IF G.keys_are_nt THEN goal \in KeySet(G.nonterminals)
    ELSE goal.name \in KeySet(G.nonterminals)

init_production(goal) == NtDef(<<>>, <<Production(<<goal>>, Accept, None)>>)

\* one iteration of the loop that synthesizes the init nonterminals; ok
\* keeps the value of the previous iteration for a goal that is neither a
\* str nor an Nt, and is unbound if there was none
synthesize_always_adds(G, acc, goal0) ==
    LET bound == goal0.kind \in {"str", "Nt"} \/ acc.ok_bound
        ok == IF goal0.kind \in {"str", "Nt"} THEN goal_is_ok(G, goal0) ELSE acc.ok
        goal == IF goal0.kind = "str" /\ ok THEN G.str_to_nt[goal0] ELSE goal0
        init_nt == Nt(InitNt(goal), <<>>)
        init_key == IF G.keys_are_nt THEN init_nt ELSE InitNt(goal)
    IN IF acc.raised # Ok THEN acc
       ELSE IF ~bound
       THEN [acc EXCEPT !.raised = "UnboundLocalError: ok"]
       ELSE IF ~ok
       THEN [acc EXCEPT !.raised = "ValueError: goal nonterminal is undefined"]
       ELSE [acc EXCEPT
                !.ok_bound = TRUE,
                !.ok = ok,
                !.nonterminals =
                    Append(acc.nonterminals, Entry(init_key, init_production(goal))),
                !.init_nts = Append(acc.init_nts, init_nt)]

synthesize(G, acc, goal0) ==
    LET bound == goal0.kind \in {"str", "Nt"} \/ acc.ok_bound
        ok == IF goal0.kind \in {"str", "Nt"} THEN goal_is_ok(G, goal0) ELSE acc.ok
        goal == IF goal0.kind = "str" /\ ok THEN G.str_to_nt[goal0] ELSE goal0
        init_nt == Nt(InitNt(goal), <<>>)
        init_key == IF G.keys_are_nt THEN init_nt ELSE InitNt(goal)
    IN IF acc.raised # Ok THEN acc
       ELSE IF ~bound
       THEN [acc EXCEPT !.raised = "UnboundLocalError: ok"]
       ELSE IF ~ok
       THEN [acc EXCEPT !.raised = "ValueError: goal nonterminal is undefined"]
       ELSE [acc EXCEPT
                !.ok_bound = TRUE,
                !.ok = ok,
                !.nonterminals =
                    IF init_key \notin KeySet(acc.nonterminals)
                    THEN Append(acc.nonterminals,
                                Entry(init_key, init_production(goal)))
                    ELSE acc.nonterminals,
                !.init_nts = Append(acc.init_nts, init_nt)]

synthesize_all(G, validated) ==
    LET from[i \in 0..Len(G.goal_nts)] ==
            IF i = 0
            THEN [raised |-> Ok, ok_bound |-> FALSE, ok |-> FALSE,
                  nonterminals |-> validated, init_nts |-> <<>>]
            ELSE synthesize(G, from[i - 1], G.goal_nts[i])
    IN from[Len(G.goal_nts)]

\* Grammar(nonterminals, goal_nts, variable_terminals, type_info): the
\* Grammar built, or the exception raised.  `inferred` is what
\* types.infer_types does if it is called.
type_info_inferred_again(ti, inferred) ==
    IF inferred.kind = "raise" THEN ti ELSE inferred

\* the type information kept: types.infer_types runs only without type_info
type_info_used(ti, inferred) == IF ti = None THEN inferred ELSE ti

Grammar(nts, goals, vts, ti, inferred) ==
    IF nts = <<>> THEN Raise("StopIteration")
    ELSE
    LET G == Closure(nts, copied_goal_nts(nts, goals), OrderedSet(vts))
    IN IF gather_raises(nts, keys_are_nt(nts)) # Ok
       THEN Raise(gather_raises(nts, keys_are_nt(nts)))
       ELSE IF validate_all_raises(G) # Ok
       THEN Raise(validate_all_raises(G))
       ELSE IF ti = None /\ inferred.kind = "raise"
       THEN inferred
       ELSE LET synth == synthesize_all(G, validated_nonterminals(G))
                types == type_info_used(ti, inferred)
            IN IF synth.raised # Ok
               THEN Raise(synth.raised)
               ELSE [kind |-> "Grammar",
                     variable_terminals |-> G.variable_terminals,
                     nonterminals |-> synth.nonterminals,
                     terminals |-> all_terminals(G),
                     nt_types |-> types.nt_types,
                     methods |-> types.methods,
                     init_nts |-> synth.init_nts]

\* Grammar.goals()
goals_of(g) == [i \in DOMAIN g.init_nts |-> g.init_nts[i].name.goal]

(***************************************************************************)
(* Inputs of the lookahead algebra: every rule over a bounded alphabet.    *)
(***************************************************************************)
TerminalNames == <<"a", "b", "c", "d", "e", "f">>
Alphabet == {TerminalNames[i] : i \in 1..AlphabetSize}
Rules == {None} \cup {LookaheadRule(S, p) : S \in SUBSET Alphabet, p \in BOOLEAN}

(***************************************************************************)
(* Inputs of Grammar.__init__, drawn from bounded sets.                    *)
(*                                                                         *)
(* Every input defines the nonterminals A and B and the family P with the  *)
(* parameters x and y; U is defined nowhere; "t" is a terminal.  With str  *)
(* keys P is one NtDef with parameters; with Nt keys (the pipeline's later *)
(* form) every key is an Nt and P is keyed by one application.             *)
(***************************************************************************)
T == Bool(TRUE)
F == Bool(FALSE)
NtA == Nt(Str("A"), <<>>)
NtB == Nt(Str("B"), <<>>)
NtU == Nt(Str("U"), <<>>)
NtP(args) == Nt(Str("P"), args)
PArgs == << <<"x", T>>, <<"y", T>> >>

NtElements ==
    {NtA, NtU,
     NtP(PArgs),                              \* the declared names
     NtP(<< <<"x", F>>, <<"y", T>> >>),       \* the declared names, other values
     NtP(<< <<"y", T>>, <<"x", T>> >>),       \* another order
     NtP(<< <<"x", T>> >>),                   \* another count
     NtP(<<>>),
     NtP(<< <<"x", T>>, <<"z", T>> >>),       \* another name
     NtP(<< <<"x", Var("x")>>, <<"y", T>> >>),
     Nt(Str("A"), << <<"x", T>> >>)}

StrElements == {Str("t"), Str("A"), Str("P")}

Elements ==
    StrElements \cup NtElements
    \cup {Optional(e) : e \in StrElements \cup {NtA, NtU, NtP(PArgs), NtP(<<>>)}}
    \cup {LookaheadRule({"t"}, FALSE), ErrorToken,
          Optional(ErrorToken), PyInt(7)}

Bodies == SeqsUpTo(Elements, MaxBody)

\* the elements used where the reduce action is what varies
PlainElements ==
    {Str("t"), NtA, Optional(Str("t")), LookaheadRule({"t"}, FALSE), ErrorToken}

PlainBodies == SeqsUpTo(PlainElements, MaxBody)

Indices == {PyInt(i) : i \in -1..MaxBody}

Actions ==
    Indices
    \cup {None, Accept, Some(None), CallMethod(Str("m"), <<>>),
          CallMethod(Str("A 0"), <<>>), CallMethod(Str("A x"), <<>>),
          CallMethod(Str("not-a-name"), <<>>), CallMethod(PyInt(0), <<>>),
          CallMethod(Str("m"), <<Accept>>)}
    \cup {CallMethod(Str("m"), <<i>>) : i \in Indices}
    \cup {CallMethod(Str("m"), <<PyInt(0), i>>) : i \in Indices}
    \cup {Some(i) : i \in Indices}
    \cup {CallMethod(Str("m"), <<Some(i)>>) : i \in Indices}
    \cup {CallMethod(Str("m"), <<None, CallMethod(Str("n"), <<i>>)>>) : i \in Indices}

GivenTypeInfo ==
    [kind |-> "tuple", nt_types |-> "given nt_types", methods |-> "given methods"]

\* types.infer_types either raises or returns (nt_types, methods)
InferTypesOutcomes ==
    {Raise("TypeError: infer_types"),
     [kind |-> "tuple", nt_types |-> "inferred nt_types",
      methods |-> "inferred methods"]}

\* a key and a definition in one of the two key forms
KeyA(kan) == IF kan THEN NtA ELSE Str("A")
KeyB(kan) == IF kan THEN NtB ELSE Str("B")
KeyP(kan) == IF kan THEN NtP(PArgs) ELSE Str("P")
KeyInit(kan, g) == IF kan THEN Nt(InitNt(g), <<>>) ELSE InitNt(g)
ParamsP(kan) == IF kan THEN <<>> ELSE <<"x", "y">>

EntryA(kan) == Entry(KeyA(kan), PyList(<< PyList(<<Str("t")>>) >>))
EntryB(kan) == Entry(KeyB(kan), PyList(<< PyList(<<Str("A")>>) >>))
EntryP(kan) == Entry(KeyP(kan), NtDef(ParamsP(kan), << PyList(<<Str("t")>>) >>))

\* the nonterminal `host` defined by the one production rhs, alone or after
\* another production
Hosted(kan, host, sole, rhs) ==
    LET rhs_list == IF sole THEN <<rhs>> ELSE <<PyList(<<Str("t")>>), rhs>>
    IN IF host = "A"
       THEN <<Entry(KeyA(kan), PyList(rhs_list)), EntryB(kan), EntryP(kan)>>
       ELSE <<EntryA(kan), EntryB(kan),
              Entry(KeyP(kan), NtDef(ParamsP(kan), rhs_list))>>

Conditions == {None, Condition("x", TRUE), Condition("z", TRUE)}

Goals == {Str("A"), Str("B"), Str("U"), Str("P"), NtA, NtB, NtU, NtP(PArgs),
          NtP(<<>>)}

GoalLists == {None} \cup {PyList(gs) : gs \in SeqsUpTo(Goals, MaxGoals)}

VariableTerminals == {<<>>, <<Str("NUM"), Str("NUM")>>, <<Str("B")>>}

\* the productions tried for an init nonterminal already in the input
InitGoals == {NtA, NtB}
InitRhs(g) ==
    {Production(body, action, None) :
        body \in {<<>>, <<g>>, <<Optional(g)>>, <<Str("A")>>, <<g, g>>},
        action \in {Accept, PyInt(0)}}
    \cup {Production(<<g>>, Accept, Condition("x", TRUE)), PyList(<<g>>)}
InitRhsLists(g) == SeqsUpTo(InitRhs(g), MaxRhs)
InitGoalLists ==
    {PyList(gs) : gs \in {<<>>, <<NtA>>, <<NtB>>, <<NtA, NtB>>, <<Str("A")>>}}

\* lookahead_intersect is not in use
NoLookaheadState ==
    /\ a = None
    /\ b = None
    /\ rule = Unset

\* no call of the desugarer is under way
NoDesugarerState ==
    /\ call = Unset
    /\ result = Unset

\* the state before Grammar(...) is called
Call(nts, goals, vts, ti) ==
    /\ pc = "Grammar"
    /\ nonterminals = nts
    /\ goal_nts = goals
    /\ variable_terminals = vts
    /\ type_info = ti
    /\ grammar = Unset
    /\ self = Unset

\* one production of any body, with no action of its own or a trivial one
InitBodies ==
    \E kan \in BOOLEAN, host \in {"A", "P"}, body \in Bodies,
       bare \in BOOLEAN :
        Call(Hosted(kan, host, TRUE,
                    IF bare THEN PyList(body) ELSE Production(body, None, None)),
             PyList(<<KeyA(kan)>>), <<>>, GivenTypeInfo)

\* one production of any reduce action
InitActions ==
    \E kan \in BOOLEAN, sole \in BOOLEAN, body \in PlainBodies,
       action \in Actions :
        Call(Hosted(kan, "A", sole, Production(body, action, None)),
             PyList(<<KeyA(kan)>>), <<>>, GivenTypeInfo)

\* one production under a condition, or a bare list after another production
InitConditions ==
    \E kan \in BOOLEAN, host \in {"A", "P"}, condition \in Conditions,
       rhs \in {Production(<<Str("t")>>, PyInt(0), None), PyList(<<>>),
                PyList(<<Str("t"), ErrorToken, NtA>>)} :
        Call(Hosted(kan, host, FALSE,
                    IF rhs.kind = "list" THEN rhs
                    ELSE [rhs EXCEPT !.condition = condition]),
             PyList(<<KeyA(kan)>>), <<>>, GivenTypeInfo)

\* any list of goals
InitGoalsOnly ==
    \E kan \in BOOLEAN, goals \in GoalLists, vts \in VariableTerminals,
       ti \in {None, GivenTypeInfo} :
        Call(<<EntryA(kan), EntryB(kan), EntryP(kan)>>, goals, vts, ti)

\* an input that already has an init nonterminal
InitWithInitNt ==
    \E kan \in BOOLEAN, g \in InitGoals, goals \in InitGoalLists,
       as_nt_def \in BOOLEAN :
        \E rhs_list \in InitRhsLists(g) :
            Call(<<EntryA(kan), EntryB(kan), EntryP(kan),
                   Entry(KeyInit(kan, g),
                         IF as_nt_def THEN NtDef(<<>>, rhs_list)
                         ELSE PyList(rhs_list))>>,
                 goals, <<>>, GivenTypeInfo)

\* a body of A that references the init nonterminal of a goal, directly or
\* in an Optional, with or without that init nonterminal among the keys
InitReference(g, wrapped) ==
    IF wrapped THEN Optional(Nt(InitNt(g), <<>>)) ELSE Nt(InitNt(g), <<>>)

InitInitReference ==
    \E kan \in BOOLEAN, g \in InitGoals, goals \in InitGoalLists,
       wrapped \in BOOLEAN, with_key \in BOOLEAN :
        Call(<<Entry(KeyA(kan),
                     PyList(<<Production(<<InitReference(g, wrapped), Str("t")>>,
                                         None, None)>>)),
               EntryB(kan), EntryP(kan)>>
             \o (IF with_key
                 THEN <<Entry(KeyInit(kan, g),
                              NtDef(<<>>, <<Production(<<g>>, Accept, None)>>))>>
                 ELSE <<>>),
             goals, <<>>, GivenTypeInfo)

\* no nonterminals at all, or keys of both forms
InitOddKeys ==
    \E nts \in {<<>>, <<EntryA(FALSE), EntryB(TRUE)>>,
                <<EntryA(TRUE), EntryB(FALSE)>>,
                <<EntryP(TRUE),
                  Entry(NtP(<< <<"x", F>> >>), PyList(<<PyList(<<>>)>>))>>,
                <<Entry(Str("not-a-name"), PyList(<<PyList(<<>>)>>))>>,
                <<Entry(NtP(<< <<"x", Var("x")>> >>), PyList(<<PyList(<<>>)>>))>>,
                <<Entry(Str("A"), PyInt(0))>>,
                <<Entry(Str("A"), PyList(<<PyInt(0)>>))>>} :
        Call(nts, None, <<>>, GivenTypeInfo)

InitGrammar ==
    /\ NoLookaheadState
    /\ NoDesugarerState
    /\ \/ InitBodies
       \/ InitActions
       \/ InitConditions
       \/ InitGoalsOnly
       \/ InitWithInitNt
       \/ InitInitReference
       \/ InitOddKeys

NoGrammarState ==
    /\ pc = "lookahead_intersect"
    /\ nonterminals = <<>>
    /\ goal_nts = None
    /\ variable_terminals = <<>>
    /\ type_info = None
    /\ grammar = Unset
    /\ self = Unset

InitLookahead ==
    /\ a \in Rules
    /\ b \in Rules
    /\ rule = Unset
    /\ NoGrammarState
    /\ NoDesugarerState

Intersect ==
    /\ pc = "lookahead_intersect"
    /\ rule' = lookahead_intersect(a, b)
    /\ pc' = "lookahead_returned"
    /\ UNCHANGED <<a, b, nonterminals, goal_nts, variable_terminals,
                   type_info, grammar, self, call, result>>

NextLookahead == Intersect

SpecLookahead == InitLookahead /\ [][NextLookahead]_vars

(***************************************************************************)
(* The operations on grammars.                                             *)
(***************************************************************************)
\* Grammar(nonterminals, goal_nts, variable_terminals, type_info)
Construct ==
    /\ pc = "Grammar"
    /\ \E inferred \in InferTypesOutcomes :
          grammar' = Grammar(nonterminals, goal_nts, variable_terminals,
                             type_info, inferred)
    /\ pc' = IF grammar'.kind = "Grammar" THEN "constructed" ELSE "raised"
    /\ UNCHANGED <<a, b, rule, nonterminals, goal_nts, variable_terminals,
                   type_info, self, call, result>>

\* the init productions as the pipeline's later stages rewrite them
WithInitForm(nts, form) ==
    [i \in DOMAIN nts |->
        LET key == nts[i].key
            init == IF key.kind = "Nt" THEN key.name ELSE key
        IN IF init.kind # "InitNt" \/ form = 1 THEN nts[i]
           ELSE Entry(key, NtDef(<<>>, expected_init_forms(init.goal)[form]))]

\* grammar.with_nonterminals(new): Grammar(new, self.goals(),
\* self.variable_terminals, (self.nt_types, self.methods))
WithNonterminals ==
    /\ pc = "constructed"
    /\ \E form \in 1..3 :
          nonterminals' = WithInitForm(grammar.nonterminals, form)
    /\ goal_nts' = PyList(goals_of(grammar))
    /\ variable_terminals' = grammar.variable_terminals
    /\ type_info' = [kind |-> "tuple", nt_types |-> grammar.nt_types,
                     methods |-> grammar.methods]
    /\ self' = grammar
    /\ \E inferred \in InferTypesOutcomes :
          grammar' = Grammar(nonterminals', goal_nts', variable_terminals',
                             type_info', inferred)
    /\ pc' = IF grammar'.kind = "Grammar" THEN "rebuilt" ELSE "rebuild raised"
    /\ UNCHANGED <<a, b, rule, call, result>>

NextGrammar == Construct \/ WithNonterminals

SpecGrammar == InitGrammar /\ [][NextGrammar]_vars

(***************************************************************************)
(* What the claims speak of, read off the arguments and the outcome.       *)
(***************************************************************************)
Returned == grammar # Unset
Built == Returned /\ grammar.kind = "Grammar"
Failed == Returned /\ grammar.kind = "raise"

RhsListOf(def) ==
    IF def.kind = "NtDef" THEN def.rhs_list
    ELSE IF def.kind = "list" THEN def.items
    ELSE <<>>

BodyOf(rhs) ==
    IF rhs.kind = "Production" THEN rhs.body
    ELSE IF rhs.kind = "list" THEN rhs.items
    ELSE <<>>

\* the right-hand sides of a mapping, each with the key it belongs to
RhsOf(nts) ==
    UNION {{[key |-> nts[i].key, rhs |-> rhs] :
                rhs \in Range(RhsListOf(nts[i].def))} : i \in DOMAIN nts}

\* the elements of a body, those inside an Optional included
ElementsIn(body) ==
    Range(body) \cup {e.inner : e \in {x \in Range(body) : x.kind = "Optional"}}

NtsIn(body) == {e \in ElementsIn(body) : e.kind = "Nt"}

Resolves(e, nts) == e \in KeySet(nts) \/ e.name \in KeySet(nts)

IsInitKey(key) ==
    \/ key.kind = "InitNt"
    \/ key.kind = "Nt" /\ key.name.kind = "InitNt"

(***************************************************************************)
(* C1: construction fails whenever a production body holds, directly or in *)
(* an Optional, an Nt whose identity and name are both no key of the       *)
(* nonterminals mapping; and in every Grammar that is built, every Nt of   *)
(* every body resolves to a key, by identity or by name.                   *)
(***************************************************************************)
C1_UndefinedNtRejected ==
    /\ (Returned /\ \E r \in RhsOf(nonterminals) :
                        \E e \in NtsIn(BodyOf(r.rhs)) : ~Resolves(e, nonterminals))
       => Failed
    /\ Built =>
         \A r \in RhsOf(grammar.nonterminals) :
            \A e \in NtsIn(BodyOf(r.rhs)) : Resolves(e, grammar.nonterminals)

C1_Witness ==
    /\ Failed
    /\ grammar.error = "ValueError: unrecognized nonterminal"
    /\ \E r \in RhsOf(nonterminals) :
          /\ Optional(NtU) \in Range(BodyOf(r.rhs))
          /\ NtU \notin Range(BodyOf(r.rhs))

(***************************************************************************)
(* C2: the goals as the constructor reads them, and the init nonterminal   *)
(* each one gets.                                                          *)
(***************************************************************************)
GoalList ==
    IF goal_nts = None THEN <<nonterminals[1].key>> ELSE goal_nts.items

GoalNt(goal) == IF goal.kind = "str" THEN Nt(goal, <<>>) ELSE goal

InitKeyOf(goal) ==
    IF nonterminals[1].key.kind = "Nt"
    THEN Nt(InitNt(GoalNt(goal)), <<>>)
    ELSE InitNt(GoalNt(goal))

DefOf(nts, key) == (CHOOSE i \in DOMAIN nts : nts[i].key = key)

KeysOnce(nts) ==
    \A i, j \in DOMAIN nts : nts[i].key = nts[j].key => i = j

KeysExtended ==
    /\ KeysOnce(grammar.nonterminals)
    /\ Len(grammar.nonterminals) >= Len(nonterminals)
    /\ \A i \in DOMAIN nonterminals :
          grammar.nonterminals[i].key = nonterminals[i].key
    /\ KeySet(grammar.nonterminals) =
          KeySet(nonterminals) \cup {InitKeyOf(g) : g \in Range(GoalList)}

InitNtsInGoalOrder ==
    grammar.init_nts =
        [i \in DOMAIN GoalList |-> Nt(InitNt(GoalNt(GoalList[i])), <<>>)]

SingleGoalProduction(goal) ==
    NtDef(<<>>, <<Production(<<GoalNt(goal)>>, Accept, None)>>)

C3_NoneIsIdentity ==
    pc = "lookahead_returned" =>
        /\ b = None => rule = a
        /\ a = None => rule = b

C3_Witness ==
    /\ pc = "lookahead_returned"
    /\ a = None
    /\ b # None
    /\ rule = b

(***************************************************************************)
(* C4: for two rules of one polarity lookahead_intersect returns a rule of *)
(* that polarity, whose set is the intersection of the two sets when both  *)
(* are positive and their union when both are negative.                    *)
(***************************************************************************)
C4_SamePolarity ==
    (pc = "lookahead_returned" /\ a # None /\ b # None
        /\ a.positive = b.positive)
    => /\ rule.kind = "LookaheadRule"
       /\ rule.positive = a.positive
       /\ rule.set = IF a.positive THEN a.set \cap b.set ELSE a.set \cup b.set

C4_Witness ==
    /\ pc = "lookahead_returned"
    /\ a # None /\ b # None
    /\ a.positive /\ b.positive
    /\ a.set # {} /\ b.set # {} /\ a.set \cap b.set = {}
    /\ rule = LookaheadRule({}, TRUE)

(***************************************************************************)
(* C5: for one positive and one negative rule, in either order,            *)
(* lookahead_intersect returns the positive rule of the positive set minus *)
(* the negative set, and the other order of the arguments returns the same.*)
(***************************************************************************)
C5_PositiveMinusNegative ==
    (pc = "lookahead_returned" /\ a # None /\ b # None
        /\ a.positive # b.positive)
    => LET P == IF a.positive THEN a ELSE b
           N == IF a.positive THEN b ELSE a
       IN /\ rule = LookaheadRule(P.set \ N.set, TRUE)
          /\ lookahead_intersect(b, a) = rule

C5_Witness ==
    /\ pc = "lookahead_returned"
    /\ a # None /\ b # None
    /\ ~a.positive /\ b.positive
    /\ a.set \cap b.set # {}
    /\ b.set \ a.set # {}
    /\ rule = LookaheadRule(b.set \ a.set, TRUE)

(***************************************************************************)
(* C6: the rule lookahead_intersect returns allows exactly the terminals   *)
(* both arguments allow, for every terminal of the alphabet.               *)
(***************************************************************************)
C6_AllowsWhatBothAllow ==
    pc = "lookahead_returned" =>
        \A t \in Alphabet :
            lookahead_contains(rule, t)
                <=> (lookahead_contains(a, t) /\ lookahead_contains(b, t))

C6_Witness ==
    /\ pc = "lookahead_returned"
    /\ a # None /\ b # None
    /\ ~a.positive /\ ~b.positive
    /\ \E t \in Alphabet : lookahead_contains(rule, t)
    /\ \E t \in Alphabet :
          lookahead_contains(a, t) /\ ~lookahead_contains(b, t)
             /\ ~lookahead_contains(rule, t)

(***************************************************************************)
(* C7: construction fails whenever the reduce action of a production       *)
(* holds, at the top, in the arguments of a CallMethod or in a Some, an    *)
(* integer outside [0, c), c being the number of elements of the body that *)
(* are neither a LookaheadRule nor the ErrorToken; and it fails with the   *)
(* out-of-range error only when there is such an integer.                  *)
(***************************************************************************)
RECURSIVE IndicesIn(_)
IndicesIn(action) ==
    IF action.kind = "int" THEN {action.i}
    ELSE IF action.kind = "CallMethod"
    THEN UNION {IndicesIn(action.args[k]) : k \in DOMAIN action.args}
    ELSE IF action.kind = "Some" THEN IndicesIn(action.inner)
    ELSE {}

ConcreteCount(body) ==
    Cardinality({j \in DOMAIN body :
                    body[j].kind \notin {"LookaheadRule", "ErrorToken"}})

HasIndexOutOfRange(rhs) ==
    /\ rhs.kind = "Production"
    /\ \E i \in IndicesIn(rhs.action) : i < 0 \/ i >= ConcreteCount(rhs.body)

DeclaredParams(name) ==
    {IF nonterminals[i].key.kind = "Nt"
     THEN [k \in DOMAIN nonterminals[i].key.args |->
              nonterminals[i].key.args[k][1]]
     ELSE IF nonterminals[i].def.kind = "NtDef"
     THEN nonterminals[i].def.params
     ELSE <<>> :
        i \in {j \in DOMAIN nonterminals :
                  \/ nonterminals[j].key = name
                  \/ /\ nonterminals[j].key.kind = "Nt"
                     /\ nonterminals[j].key.name = name}}

IsParameterized(name) == \E ps \in DeclaredParams(name) : ps # <<>>

MisappliesParameterized(e) ==
    \/ e.kind = "str" /\ IsParameterized(e)
    \/ /\ e.kind = "Nt"
       /\ IsParameterized(e.name)
       /\ [k \in DOMAIN e.args |-> e.args[k][1]] \notin DeclaredParams(e.name)

C8_WrongArgumentsRejected ==
    (Returned /\ \E r \in RhsOf(nonterminals) :
                    \E e \in ElementsIn(BodyOf(r.rhs)) : MisappliesParameterized(e))
    => Failed

C8_Witness ==
    /\ Failed
    /\ grammar.error = "ValueError: wrong arguments passed"
    /\ nonterminals[1].key.kind = "str"
    /\ \E r \in RhsOf(nonterminals) :
          BodyOf(r.rhs) = <<Str("t"), NtP(<< <<"y", T>>, <<"x", T>> >>)>>

(***************************************************************************)
(* C9: the action accept is legal only in the productions of init          *)
(* nonterminals: construction fails when a production of another           *)
(* nonterminal has it, so that a Grammar that is built has it in the       *)
(* productions of init nonterminals alone.                                 *)
(***************************************************************************)
C9_AcceptOnlyOnInitNts ==
    /\ (Returned /\ type_info # None
          /\ \E r \in RhsOf(nonterminals) :
                /\ ~IsInitKey(r.key)
                /\ r.rhs.kind = "Production"
                /\ r.rhs.action = Accept)
       => Failed
    /\ (Built /\ type_info # None)
       => \A r \in RhsOf(grammar.nonterminals) :
             r.rhs.action = Accept => IsInitKey(r.key)

(***************************************************************************)
(* C10: with a key InitNt(g) in the input, construction succeeds only if   *)
(* the key maps to exactly [[g] accept], [[Optional(g)] accept] or         *)
(* [[] accept, [g] accept] and g is in the list of goals.                  *)
(***************************************************************************)
InitForms(g) ==
    {<<Production(<<g>>, Accept, None)>>,
     <<Production(<<Optional(g)>>, Accept, None)>>,
     <<Production(<<>>, Accept, None), Production(<<g>>, Accept, None)>>}

C10_InitNtFormChecked ==
    Built =>
        \A i \in DOMAIN nonterminals :
            nonterminals[i].key.kind = "InitNt" =>
                /\ nonterminals[i].def.kind = "NtDef"
                /\ nonterminals[i].def.rhs_list \in InitForms(nonterminals[i].key.goal)
                /\ nonterminals[i].key.goal \in Range(GoalList)

C10_Witness ==
    /\ pc = "constructed"
    /\ \E i \in DOMAIN nonterminals :
          /\ nonterminals[i].key = InitNt(NtB)
          /\ nonterminals[i].def.rhs_list =
                <<Production(<<>>, Accept, None), Production(<<NtB>>, Accept, None)>>
    /\ GoalList = <<NtA, NtB>>

(***************************************************************************)
(* C11: in every Grammar that is built no production body holds, directly  *)
(* or in an Optional, an Nt whose name is an InitNt: a body that           *)
(* references an init nonterminal is rejected by the constructor.          *)
(***************************************************************************)
ReferencesInitNt(body) ==
    \E e \in NtsIn(body) : e.name.kind = "InitNt"

C11_InitNtNeverReferenced ==
    Built =>
        \A r \in RhsOf(grammar.nonterminals) : ~ReferencesInitNt(BodyOf(r.rhs))

(***************************************************************************)
(* C12: in every Grammar that is built the terminals and the names of the  *)
(* nonterminals are disjoint: a string of a body that names a nonterminal  *)
(* is replaced by that nonterminal and is no terminal, the terminals are   *)
(* exactly the variable terminals and the strings of the bodies that name  *)
(* no nonterminal, and a key whose name is a variable terminal is          *)
(* rejected.                                                               *)
(***************************************************************************)
NameOfKey(key) == IF key.kind = "Nt" THEN key.name ELSE key

NtNames(nts) == {NameOfKey(k) : k \in KeySet(nts)}

StringsIn(nts) ==
    UNION {{e \in ElementsIn(BodyOf(r.rhs)) : e.kind = "str"} : r \in RhsOf(nts)}

C12_TerminalsAndNamesDisjoint ==
    /\ (Returned /\ NtNames(nonterminals) \cap Range(variable_terminals) # {})
          => Failed
    /\ Built =>
          /\ Range(grammar.terminals) \cap NtNames(grammar.nonterminals) = {}
          /\ Range(grammar.terminals) =
                Range(variable_terminals)
                \cup (StringsIn(nonterminals) \ NtNames(nonterminals))
          /\ \A r \in RhsOf(grammar.nonterminals) :
                \A e \in ElementsIn(BodyOf(r.rhs)) :
                   e.kind = "str" => e \in Range(grammar.terminals)

C12_Witness ==
    /\ Built
    /\ Str("A") \in StringsIn(nonterminals)
    /\ Str("A") \notin Range(grammar.terminals)
    /\ Range(grammar.terminals) = {Str("NUM"), Str("t")}

(***************************************************************************)
(* js_parser/parse_esgrammar.py: ESGrammarBuilder.                         *)
(*                                                                         *)
(* A fragment is the tuple rhs_line returns, (body, reducer, condition),   *)
(* and a left-hand side the tuple (name, params) of nt_lhs_no_params and   *)
(* nt_lhs_with_params; both are records here.  The builder is written      *)
(* against a Production whose second attribute is called reducer (the      *)
(* Production of grammar.py calls it action), whose copy_with takes        *)
(* reducer=, against an NtDef with a third argument and against            *)
(* grammar.ErrorSymbol: these are modelled from their use in the builder.  *)
(***************************************************************************)
rhs_line(ifdef, rhs, reducer) ==
    [kind |-> "rhs", body |-> rhs, reducer |-> reducer, condition |-> ifdef]

nt_lhs_with_params(name, params) ==
    [kind |-> "lhs", name |-> name, params |-> params]

\* grammar.ErrorSymbol(code): the error-recovery marker of a fallback
ErrorSymbol(code) == [kind |-> "ErrorSymbol", error_code |-> code]

\* grammar.NtDef(args, production_list, nt_type)
TypedNtDef(params, rhs_list, type) ==
    [kind |-> "NtDef", params |-> params, rhs_list |-> rhs_list, type |-> type]

\* p.reducer
reducer_of(p) == p.action

\* p.copy_with(body=body, reducer=reducer)
copy_with(p, body, reducer) == Production(body, reducer, p.condition)

EndsWith(s, suffix) ==
    /\ Len(s) >= Len(suffix)
    /\ SubSeq(s, Len(s) - Len(suffix) + 1, Len(s)) = suffix

PRODUCTION_GROUPS ==
    <<"(Expression|^(Array|Object)?Literal)$",
      "(Statement|Declaration|^StatementListItem|^ModuleItem)$",
      "Method(Definition)?$">>

\* re.search(group, s) is not None, for the groups of PRODUCTION_GROUPS
re_search(group, s) ==
    IF group = PRODUCTION_GROUPS[1]
    THEN EndsWith(s, "Expression")
         \/ s \in {"Literal", "ArrayLiteral", "ObjectLiteral"}
    ELSE IF group = PRODUCTION_GROUPS[2]
    THEN EndsWith(s, "Statement") \/ EndsWith(s, "Declaration")
         \/ s \in {"StatementListItem", "ModuleItem"}
    ELSE EndsWith(s, "Method") \/ EndsWith(s, "MethodDefinition")

\* the element is_matched_pair hands to re.search
matched_element(rhs_element) ==
    IF rhs_element.kind = "Nt" THEN rhs_element.name ELSE rhs_element

\* re.search raises TypeError on an element that is no str; it is reached
\* for the first group that matches lhs_name
is_matched_pair_raises(lhs_name, rhs_element) ==
    IF /\ matched_element(rhs_element).kind # "str"
       /\ \E g \in DOMAIN PRODUCTION_GROUPS :
             re_search(PRODUCTION_GROUPS[g], lhs_name.s)
    THEN "TypeError: expected string or bytes-like object"
    ELSE Ok

is_matched_pair(lhs_name, rhs_element) ==
    \E g \in DOMAIN PRODUCTION_GROUPS :
        /\ re_search(PRODUCTION_GROUPS[g], lhs_name.s)
        /\ re_search(PRODUCTION_GROUPS[g], matched_element(rhs_element).s)

\* nt_name of default_reducer
lhs_name_of(lhs) == IF lhs.kind = "lhs" THEN lhs.name ELSE lhs

\* nargs of default_reducer
nargs_of(body) ==
    Cardinality({j \in DOMAIN body : is_concrete_element(body[j])})

\* tuple(range(nargs))
range_tuple(nargs) == [j \in 1..nargs |-> PyInt(j - 1)]

method_name_always_indexed(nt_name, i, is_sole_production) ==
    Str(nt_name.s \o " " \o ToString(i))

method_name(nt_name, i, is_sole_production) ==
    IF is_sole_production
    THEN nt_name
    ELSE Str(nt_name.s \o " " \o ToString(i))

default_reducer_raises(lhs, i, body, is_sole_production) ==
    IF Len(body) = 1 /\ nargs_of(body) = 1
    THEN is_matched_pair_raises(lhs_name_of(lhs), body[1])
    ELSE Ok

default_reducer(lhs, i, body, is_sole_production) ==
    IF /\ Len(body) = 1
       /\ nargs_of(body) = 1
       /\ is_matched_pair(lhs_name_of(lhs), body[1])
    THEN PyInt(0)
    ELSE CallMethod(method_name(lhs_name_of(lhs), i, is_sole_production),
                    range_tuple(nargs_of(body)))

to_production_raises(lhs, i, rhs, is_sole_production) ==
    IF rhs.reducer = None
    THEN default_reducer_raises(lhs, i, rhs.body, is_sole_production)
    ELSE Ok

to_production(lhs, i, rhs, is_sole_production) ==
    Production(rhs.body,
               IF rhs.reducer = None
               THEN default_reducer(lhs, i, rhs.body, is_sole_production)
               ELSE rhs.reducer,
               rhs.condition)

needs_asi_of_any_last_element(lhs, p) ==
    /\ ~(lhs.kind = "lhs" /\ lhs.name = Str("ForLexicalDeclaration"))
    /\ Len(p.body) > 1

needs_asi(lhs, p) ==
    /\ ~(lhs.kind = "lhs" /\ lhs.name = Str("ForLexicalDeclaration"))
    /\ Len(p.body) > 1
    /\ p.body[Len(p.body)] = Str(";")

\* assert isinstance(p.reducer, grammar.CallMethod)
apply_asi_raises(p) ==
    IF reducer_of(p).kind # "CallMethod" THEN "AssertionError" ELSE Ok

asi_reducer_unchanged(p, reducer_was_autogenerated) == reducer_of(p)

\* reducer of apply_asi
asi_reducer(p, reducer_was_autogenerated) ==
    IF reducer_was_autogenerated
    THEN CallMethod(reducer_of(p).method,
                    SubSeq(reducer_of(p).args, 1, Len(reducer_of(p).args) - 1))
    ELSE reducer_of(p)

asi_code_generic(body) == "asi"

\* code of apply_asi
asi_code(body) ==
    IF /\ Len(body) = 7
       /\ body[1] = Str("do")
       /\ body[3] = Str("while")
       /\ body[4] = Str("(")
       /\ body[6] = Str(")")
       /\ body[7] = Str(";")
    THEN "do_while_asi"
    ELSE "asi"

apply_asi(p, reducer_was_autogenerated) ==
    LET reducer == asi_reducer(p, reducer_was_autogenerated)
    IN <<copy_with(p, p.body, reducer),
         copy_with(p, SubSeq(p.body, 1, Len(p.body) - 1)
                          \o <<ErrorSymbol(asi_code(p.body))>>,
                   reducer)>>

\* what the loop of nt_def adds to production_list for rhs_list[i + 1], or
\* the error it raises there
nt_def_step_raises(lhs, i, rhs, has_sole_production) ==
    IF to_production_raises(lhs, i, rhs, has_sole_production) # Ok
    THEN to_production_raises(lhs, i, rhs, has_sole_production)
    ELSE IF needs_asi(lhs, to_production(lhs, i, rhs, has_sole_production))
    THEN apply_asi_raises(to_production(lhs, i, rhs, has_sole_production))
    ELSE Ok

nt_def_step(lhs, i, rhs, has_sole_production) ==
    LET p == to_production(lhs, i, rhs, has_sole_production)
    IN IF needs_asi(lhs, p)
       THEN apply_asi(p, rhs.reducer = None)
       ELSE <<p>>

\* production_list of nt_def after the whole loop
nt_def_production_list(lhs, rhs_list) ==
    LET from[i \in 0..Len(rhs_list)] ==
            IF i = 0 THEN <<>>
            ELSE from[i - 1]
                 \o nt_def_step(lhs, i - 1, rhs_list[i], Len(rhs_list) = 1)
    IN from[Len(rhs_list)]

\* ESGrammarBuilder.nt_def: the triple returned, or the exception raised
nt_def(nt_type, lhs, eq, rhs_list) ==
    LET raised == FirstError([i \in DOMAIN rhs_list |->
                      nt_def_step_raises(lhs, i - 1, rhs_list[i],
                                         Len(rhs_list) = 1)])
    IN IF raised # Ok
       THEN Raise(raised)
       ELSE IF lhs.kind # "lhs"    \* name, args = lhs
       THEN Raise("ValueError: values to unpack")
       ELSE [kind |-> "nt_def", name |-> lhs.name, eq |-> eq,
             def |-> TypedNtDef(lhs.params,
                                nt_def_production_list(lhs, rhs_list),
                                nt_type)]

(***************************************************************************)
(* Inputs of ESGrammarBuilder.nt_def, drawn from bounded sets.             *)
(***************************************************************************)
LeftHandSides ==
    {nt_lhs_with_params(Str(n), <<>>) :
        n \in {"Expression", "IterationStatement", "Script",
               "ForLexicalDeclaration", "ForLexicalDeclarationList"}}
    \cup {nt_lhs_with_params(Str("ForLexicalDeclaration"), <<"In">>),
          Str("ForLexicalDeclaration")}

NotBrace == LookaheadRule({"{"}, FALSE)

DoWhileBody ==
    <<Str("do"), Str("Statement"), Str("while"), Str("("), Str("Expression"),
      Str(")"), Str(";")>>

ForBody ==
    <<Str("for"), Str("("), Str(";"), Str(";"), Str(")"), Str("Statement")>>

ExpressionStatementBody == <<Str("Expression"), Str(";")>>

DesugarerBodies ==
    {<<>>,
     <<Str(";")>>,
     <<Str("PrimaryExpression")>>,
     <<Str("IfStatement")>>,
     <<Nt(Str("AssignmentExpression"), << <<"In", T>> >>)>>,
     <<Optional(Str("Expression"))>>,
     <<NotBrace, Str("AssignmentExpression")>>,
     ExpressionStatementBody,
     <<NotBrace, Str("Expression"), Str(";")>>,
     <<Str(";"), Str(";")>>,
     DoWhileBody,
     [DoWhileBody EXCEPT ![3] = Str("until")],
     ForBody}

ExplicitReducers == {PyInt(0), CallMethod(Str("m"), <<PyInt(0)>>)}

IfDef == Condition("Yield", TRUE)

Fragments ==
    {rhs_line(None, body, None) : body \in DesugarerBodies}
    \cup {rhs_line(None, body, reducer) :
             body \in {<<Str(";")>>, <<Str("PrimaryExpression")>>,
                       ExpressionStatementBody, DoWhileBody, ForBody},
             reducer \in ExplicitReducers}
    \cup {rhs_line(IfDef, body, reducer) :
             body \in {<<Str(";")>>, ExpressionStatementBody},
             reducer \in {None, CallMethod(Str("m"), <<PyInt(0)>>)}}

FragmentLists == SeqsUpTo(Fragments, MaxFragments)

\* neither lookahead_intersect nor Grammar is in use
NoGrammarArguments ==
    /\ nonterminals = <<>>
    /\ goal_nts = None
    /\ variable_terminals = <<>>
    /\ type_info = None
    /\ grammar = Unset
    /\ self = Unset

InitNtDef ==
    /\ NoLookaheadState
    /\ NoGrammarArguments
    /\ pc = "nt_def"
    /\ \E lhs \in LeftHandSides, rhs_list \in FragmentLists :
          call = [nt_type |-> None, lhs |-> lhs, eq |-> ":",
                  rhs_list |-> rhs_list]
    /\ result = Unset

\* builder.nt_def(nt_type, lhs, eq, rhs_list)
NtDefCall ==
    /\ pc = "nt_def"
    /\ result' = nt_def(call.nt_type, call.lhs, call.eq, call.rhs_list)
    /\ pc' = IF result'.kind = "raise" THEN "nt_def raised"
             ELSE "nt_def returned"
    /\ UNCHANGED <<a, b, rule, nonterminals, goal_nts, variable_terminals,
                   type_info, grammar, self, call>>

(***************************************************************************)
(* finish_grammar(nt_defs, goals, synthetic_terminals, single_grammar):    *)
(* nt_defs is the sequence of triples (nt_name, eq, NtDef or list) the     *)
(* builder produced.  The call of grammar.Grammar that ends it is recorded *)
(* with its arguments.                                                     *)
(***************************************************************************)
nt_def_triple(name, eq, def) ==
    [kind |-> "nt_def", name |-> name, eq |-> eq, def |-> def]

GrammarCall(nts, goals, variable, synthetic) ==
    [kind |-> "Grammar", nonterminals |-> nts, goal_nts |-> goals,
     variable_terminals |-> variable, synthetic_terminals |-> synthetic]

\* the first loop: a second definition of a name raises
nt_grammars_raises(nt_defs) ==
    IF \E i, j \in DOMAIN nt_defs : i < j /\ nt_defs[i].name = nt_defs[j].name
    THEN "ValueError: duplicate definitions for nonterminal"
    ELSE Ok

\* the dict nt_grammars, name to marker, when no name is defined twice
nt_grammars(nt_defs) ==
    [name \in {nt_defs[i].name : i \in DOMAIN nt_defs} |->
        nt_defs[CHOOSE i \in DOMAIN nt_defs : nt_defs[i].name = name].eq]

selected_grammars_of_first_goal(nt_defs, goals) ==
    {nt_grammars(nt_defs)[goals[1]]}

selected_grammars(nt_defs, goals) ==
    {nt_grammars(nt_defs)[goals[i]] : i \in DOMAIN goals}

selection_raises(nt_defs, goals, single_grammar) ==
    IF Len(goals) = 0
    THEN "ValueError: no goal nonterminals specified"
    ELSE IF ~single_grammar THEN Ok
    ELSE IF \E i \in DOMAIN goals : goals[i] \notin DOMAIN nt_grammars(nt_defs)
    THEN "KeyError"
    ELSE IF Cardinality(selected_grammars(nt_defs, goals)) > 1
    THEN "ValueError: all goal nonterminals must be part of the same grammar"
    ELSE Ok

\* [selected_grammar] = selected_grammars
selected_grammar(nt_defs, goals) ==
    CHOOSE eq \in selected_grammars(nt_defs, goals) : TRUE

\* the character that opens and closes a quoted terminal: the first
\* character of a two-character literal
Backtick == SubSeq("`'", 1, 1)

is_backticked(e) == e.kind = "str" /\ SubSeq(e.s, 1, 1) = Backtick

\* hack_production: the first backticked element either is malformed or is
\* assigned to p[i], which a Production does not support
hack_production_raises(p) ==
    FirstError([i \in DOMAIN p.body |->
        IF ~is_backticked(p.body[i]) THEN Ok
        ELSE IF Len(p.body[i].s) < 3
                \/ SubSeq(p.body[i].s, Len(p.body[i].s), Len(p.body[i].s))
                      # Backtick
        THEN "ValueError: Unrecognized grammar symbol"
        ELSE "TypeError: Production object does not support item assignment"])

is_skipped_under_either_marker(triple, single_grammar, selected) ==
    single_grammar /\ triple.eq # selected

\* a definition that is left out of the nonterminals
is_skipped(triple, single_grammar, selected) ==
    single_grammar /\ triple.eq # selected /\ selected = ":"

definition_raises(triple, names) ==
    IF triple.def.kind = "NtDef" THEN Ok
    ELSE LET rhs_list == triple.def.items
             raised == FirstError([i \in DOMAIN rhs_list |->
                 IF rhs_list[i].kind # "Production"
                 THEN "ValueError: invalid grammar: ifdef in non-function-call context"
                 ELSE hack_production_raises(rhs_list[i])])
         IN IF raised # Ok THEN raised
            ELSE IF triple.name \in names
            THEN "ValueError: unsupported: multiple definitions for nt"
            ELSE Ok

\* the second loop: the nonterminals dict, the variable terminals and the
\* first exception, after the first k triples
definitions(nt_defs, single_grammar, selected) ==
    LET upto[k \in 0..Len(nt_defs)] ==
            IF k = 0
            THEN [nonterminals |-> <<>>, variable_terminals |-> {},
                  raised |-> Ok]
            ELSE LET before == upto[k - 1]
                     triple == nt_defs[k]
                     names == {before.nonterminals[i].key :
                                  i \in DOMAIN before.nonterminals}
                 IN IF before.raised # Ok THEN before
                    ELSE IF is_skipped(triple, single_grammar, selected)
                    THEN [before EXCEPT !.variable_terminals =
                                            @ \cup {triple.name}]
                    ELSE IF definition_raises(triple, names) # Ok
                    THEN [before EXCEPT !.raised =
                                            definition_raises(triple, names)]
                    ELSE [before EXCEPT !.nonterminals =
                             Append(@, Entry(triple.name,
                                 IF triple.def.kind = "NtDef" THEN triple.def
                                 ELSE triple.def.items))]
    IN upto[Len(nt_defs)]

finish_grammar(nt_defs, goals, synthetic_terminals, single_grammar) ==
    IF nt_grammars_raises(nt_defs) # Ok
       THEN Raise(nt_grammars_raises(nt_defs))
       ELSE IF selection_raises(nt_defs, goals, single_grammar) # Ok
       THEN Raise(selection_raises(nt_defs, goals, single_grammar))
       ELSE LET selected == IF single_grammar
                            THEN selected_grammar(nt_defs, goals)
                            ELSE "unbound"
                defs == definitions(nt_defs, single_grammar, selected)
            IN IF defs.raised # Ok THEN Raise(defs.raised)
               ELSE GrammarCall(defs.nonterminals, goals,
                                defs.variable_terminals, synthetic_terminals)

(***************************************************************************)
(* Inputs of finish_grammar, drawn from bounded sets.                      *)
(***************************************************************************)
ScriptDef == TypedNtDef(<<>>, <<Production(<<Str("Statement")>>,
                                            PyInt(0), None)>>, None)

TokenDef == TypedNtDef(<<>>, <<Production(<<Str("IdentifierName")>>,
                                           CallMethod(Str("Token"),
                                                      <<PyInt(0)>>),
                                           None)>>, None)

NtDefTriples ==
    {nt_def_triple(Str("Script"), ":", ScriptDef),
     nt_def_triple(Str("Script"), "::", ScriptDef),
     nt_def_triple(Str("Token"), "::", TokenDef),
     nt_def_triple(Str("Token"), ":",
         PyList(<<rhs_line(IfDef, <<Str("IdentifierName")>>, None)>>)),
     nt_def_triple(Str("Module"), ":",
         PyList(<<Production(<<Str("Script")>>, PyInt(0), None)>>)),
     nt_def_triple(Str("Module"), "::",
         PyList(<<Production(<<Str(Backtick \o ";" \o Backtick)>>, PyInt(0), None)>>)),
     nt_def_triple(Str("Comment"), "::", TokenDef),
     nt_def_triple(Str("Comment"), ":",
         PyList(<<Production(<<Str("Script"), Str(Backtick)>>, PyInt(0),
                             None)>>))}

NtDefLists == SeqsUpTo(NtDefTriples, MaxNtDefs)

FinishGoalLists ==
    {<<>>, <<Str("Script")>>, <<Str("Token")>>,
     <<Str("Script"), Str("Module")>>, <<Str("Script"), Str("Token")>>,
     <<Str("Token"), Str("Comment")>>, <<Str("Token"), Str("Script")>>}

InitFinishGrammar ==
    /\ NoLookaheadState
    /\ NoGrammarArguments
    /\ pc = "finish_grammar"
    /\ \E nt_defs \in NtDefLists, goals \in FinishGoalLists,
          single_grammar \in BOOLEAN :
          call = [nt_defs |-> nt_defs, goals |-> goals,
                  synthetic_terminals |-> {Str("IdentifierName")},
                  single_grammar |-> single_grammar]
    /\ result = Unset

\* finish_grammar(nt_defs, goals, synthetic_terminals, single_grammar)
FinishGrammar ==
    /\ pc = "finish_grammar"
    /\ result' = finish_grammar(call.nt_defs, call.goals,
                                call.synthetic_terminals, call.single_grammar)
    /\ pc' = IF result'.kind = "raise" THEN "finish_grammar raised"
             ELSE "finish_grammar returned"
    /\ UNCHANGED <<a, b, rule, nonterminals, goal_nts, variable_terminals,
                   type_info, grammar, self, call>>

(***************************************************************************)
(* Python str methods used by the code generators, on TLA+ strings.        *)
(***************************************************************************)
LowerChars == "abcdefghijklmnopqrstuvwxyz"
UpperChars == "ABCDEFGHIJKLMNOPQRSTUVWXYZ"

IndexIn(c, s) == CHOOSE i \in 1..Len(s) : CharAt(s, i) = c

is_upper_char(c) == c \in Chars(UpperChars)
is_lower_char(c) == c \in Chars(LowerChars)

lower_char(c) ==
    IF is_upper_char(c) THEN CharAt(LowerChars, IndexIn(c, UpperChars)) ELSE c

upper_char(c) ==
    IF is_lower_char(c) THEN CharAt(UpperChars, IndexIn(c, LowerChars)) ELSE c

RECURSIVE lower(_)
lower(s) ==
    IF s = "" THEN ""
    ELSE lower_char(CharAt(s, 1)) \o lower(SubSeq(s, 2, Len(s)))

\* s.capitalize()
capitalize(s) ==
    IF s = "" THEN ""
    ELSE upper_char(CharAt(s, 1)) \o lower(SubSeq(s, 2, Len(s)))

\* s.islower(): a cased character, and no uppercase one
islower(s) ==
    /\ \E c \in Chars(s) : is_lower_char(c)
    /\ \A c \in Chars(s) : ~is_upper_char(c)

isalpha(s) == Len(s) > 0 /\ Chars(s) \subseteq Letters

\* s.replace(old, new) for a one-character old
RECURSIVE replace(_, _, _)
replace(s, old, new) ==
    IF s = "" THEN ""
    ELSE (IF CharAt(s, 1) = old THEN new ELSE CharAt(s, 1))
            \o replace(SubSeq(s, 2, Len(s)), old, new)

\* s.split(sep) for a one-character sep
RECURSIVE split(_, _)
split(s, sep) ==
    LET seps == {i \in 1..Len(s) : CharAt(s, i) = sep}
    IN IF seps = {} THEN <<s>>
       ELSE LET i == CHOOSE k \in seps : \A m \in seps : k <= m
            IN <<SubSeq(s, 1, i - 1)>> \o split(SubSeq(s, i + 1, Len(s)), sep)

\* ''.join(words)
RECURSIVE join(_, _)
join(sep, words) ==
    IF words = <<>> THEN ""
    ELSE IF Len(words) = 1 THEN words[1]
    ELSE words[1] \o sep \o join(sep, Tail(words))

\* str(i) and repr(i) of an int
str_of_int(i) == ToString(i)

(***************************************************************************)
(* emit.py: the spelling of identifiers in the generated Rust.             *)
(***************************************************************************)
\* the end of the longest run of [a-z] that starts at position i
RECURSIVE lower_run_end(_, _)
lower_run_end(s, i) ==
    IF i < Len(s) /\ is_lower_char(CharAt(s, i + 1))
    THEN lower_run_end(s, i + 1)
    ELSE i

\* re.sub('(.)([A-Z][a-z]+)', r'\1_\2', s), from position i on
RECURSIVE sub_word(_, _)
sub_word(s, i) ==
    IF i > Len(s) THEN ""
    ELSE IF /\ i + 2 <= Len(s)
            /\ is_upper_char(CharAt(s, i + 1))
            /\ is_lower_char(CharAt(s, i + 2))
    THEN LET j == lower_run_end(s, i + 2)
         IN CharAt(s, i) \o "_" \o SubSeq(s, i + 1, j) \o sub_word(s, j + 1)
    ELSE CharAt(s, i) \o sub_word(s, i + 1)

\* re.sub('([a-z0-9])([A-Z])', r'\1_\2', s), from position i on
RECURSIVE sub_hump(_, _)
sub_hump(s, i) ==
    IF i > Len(s) THEN ""
    ELSE IF /\ i + 1 <= Len(s)
            /\ (is_lower_char(CharAt(s, i)) \/ CharAt(s, i) \in Digits)
            /\ is_upper_char(CharAt(s, i + 1))
    THEN CharAt(s, i) \o "_" \o CharAt(s, i + 1) \o sub_hump(s, i + 2)
    ELSE CharAt(s, i) \o sub_hump(s, i + 1)

to_snek_case(ident) == lower(sub_hump(sub_word(ident, 1), 1))

to_camel_case(ident) ==
    IF "_" \in Chars(ident)
    THEN join("", [i \in DOMAIN split(ident, "_") |->
                      capitalize(split(ident, "_")[i])])
    ELSE IF islower(ident) THEN capitalize(ident)
    ELSE ident

\* the truth value of a Python value
is_true(v) == v \notin {Bool(FALSE), PyInt(0), None, Str("")}

\* the flags of an Nt that are set, each as "_" and its snake-case name
RECURSIVE snake_args(_)
snake_args(args) ==
    IF args = <<>> THEN ""
    ELSE (IF is_true(args[1][2]) THEN "_" \o to_snek_case(args[1][1])
          ELSE "")
            \o snake_args(Tail(args))

nonterminal_to_snake(ident) ==
    IF ident.kind = "Nt"
    THEN to_snek_case(ident.name.s) \o snake_args(ident.args)
    ELSE to_snek_case(ident.s)

nonterminal_to_camel(nt) == to_camel_case(nonterminal_to_snake(nt))

method_name_to_rust(name) ==
    LET parts == partition(name)
    IN nonterminal_to_snake(Str(parts[1]))
          \o (IF parts[2] # "" THEN "_p" \o parts[3] ELSE "")

\* emit/python.py: the name of the builder method of a tag
method_name_to_python(tag) == replace(tag, " ", "_P")

(***************************************************************************)
(* The names of the builder methods in the generated code, for two method  *)
(* tags of one grammar.                                                    *)
(***************************************************************************)
MethodTags ==
    {tag \in {"A", "B", "A 1", "A 2", "A_P1", "a_p1", "FooBar", "foo_bar",
              "Foo_Bar", "FooBar 1", "foo_bar_p1", "FooBar 12", "A B",
              "A 1 2", "1 A"} :
        method_name_is_valid(tag)}

InitMethodNames ==
    /\ NoLookaheadState
    /\ NoGrammarArguments
    /\ pc = "method names"
    /\ \E first \in MethodTags, second \in MethodTags :
          call = [tags |-> <<first, second>>]
    /\ result = Unset

\* compile_reduce_expr / DefaultBuilder in the Python backend,
\* handler_trait / reduce in the Rust backend
MethodNames ==
    /\ pc = "method names"
    /\ result' = [python |-> [i \in 1..2 |->
                                 method_name_to_python(call.tags[i])],
                  rust |-> [i \in 1..2 |-> method_name_to_rust(call.tags[i])]]
    /\ pc' = "method names written"
    /\ UNCHANGED <<a, b, rule, nonterminals, goal_nts, variable_terminals,
                   type_info, grammar, self, call>>

(***************************************************************************)
(* The values the code generators read besides the grammar: the types of   *)
(* types.py and the parser states.                                         *)
(***************************************************************************)
NtType(name) == [kind |-> "NtType", name |-> name]
OptionType(t) == [kind |-> "OptionType", t |-> t]
UnitType == [kind |-> "UnitType"]
MethodType(argument_types, return_type) ==
    [argument_types |-> argument_types, return_type |-> return_type]

\* a state of the parser: the rows of the two tables and its traceback
ParserState(action_row, ctn_row, traceback) ==
    [action_row |-> action_row, ctn_row |-> ctn_row, traceback |-> traceback]

\* a production of parser_states.prods
Prod(nt, rhs, action) == [nt |-> nt, rhs |-> rhs, action |-> action]

\* hex(ERROR) of runtime.py
HexOfERROR == "-0x8000000000000000"

RECURSIVE flatten(_)
flatten(lists) ==
    IF lists = <<>> THEN <<>> ELSE lists[1] \o flatten(Tail(lists))

keys(row) == [i \in DOMAIN row |-> row[i].key]

\* row.get(key, default)
get(row, key, default) ==
    IF \E i \in DOMAIN row : row[i].key = key
    THEN row[CHOOSE i \in DOMAIN row : row[i].key = key].def
    ELSE default

\* RustParserWriter.__init__: self.terminals and self.nonterminals
writer_terminals(states) ==
    OrderedSet(flatten([i \in DOMAIN states |-> keys(states[i].action_row)]))

writer_nonterminals(states) ==
    OrderedSet(flatten([i \in DOMAIN states |-> keys(states[i].ctn_row)]))

(***************************************************************************)
(* emit.py: RustParserWriter.  Each method is the sequence of strings it   *)
(* passes to out.write, or the exception it raises.                        *)
(***************************************************************************)
RECURSIVE indent(_)
indent(n) == IF n = 0 THEN "" ELSE "    " \o indent(n - 1)

\* self.write(indentation, string, *format_args), the string formatted
write(indentation, formatted) == indent(indentation) \o formatted \o "\n"

header ==
    <<write(0, "// THIS FILE IS AUTOGENERATED -- HAHAHAHA"),
      write(0, ""),
      write(0, "use super::parser_runtime::{self, ParserTables, TokenStream};"),
      write(0, "use super::parser::Result;"),
      write(0, ""),
      write(0, "const ERROR: i64 = " \o HexOfERROR \o ";"),
      write(0, "")>>

\* unicodedata.name(c) for the punctuation of the inputs
UnicodeNames ==
    <<Entry(";", "SEMICOLON"), Entry("(", "LEFT PARENTHESIS"),
      Entry(")", "RIGHT PARENTHESIS"), Entry("=", "EQUALS SIGN"),
      Entry(">", "GREATER-THAN SIGN"), Entry("-", "HYPHEN-MINUS")>>

unicode_name(c) == get(UnicodeNames, c, "")

TERMINAL_NAMES == <<Entry("=>", "Arrow")>>

terminal_name(value) ==
    IF value = None THEN "End"
    ELSE IF value = ErrorToken THEN "ErrorToken"
    ELSE IF value.s \in Range(keys(TERMINAL_NAMES))
    THEN get(TERMINAL_NAMES, value.s, "")
    ELSE IF isalpha(value.s)
    THEN IF islower(value.s) THEN capitalize(value.s) ELSE value.s
    ELSE LET raw_name == join(" ", [i \in 1..Len(value.s) |->
                                       unicode_name(CharAt(value.s, i))])
             snake_case == lower(replace(replace(raw_name, "-", " "),
                                         " ", "_"))
         IN to_camel_case(snake_case)

\* repr(t) of a terminal
repr_terminal(t) ==
    IF t = None THEN "None"
    ELSE IF t = ErrorToken THEN "ErrorToken"
    ELSE "'" \o t.s \o "'"

terminal_id(terminals) ==
    <<write(0, "#[derive(Copy, Clone, Debug, PartialEq)]"),
      write(0, "pub enum TerminalId {")>>
    \o [i \in DOMAIN terminals |->
          write(1, terminal_name(terminals[i]) \o " = " \o str_of_int(i - 1)
                      \o ", // " \o repr_terminal(terminals[i]))]
    \o <<write(0, "}"), write(0, "")>>

token(terminals, variable) ==
    <<write(0, "#[derive(Clone, Debug, PartialEq)]"),
      write(0, "pub enum Token {")>>
    \o [i \in DOMAIN terminals |->
          write(1, terminal_name(terminals[i])
                      \o (IF terminals[i] \in variable THEN "(String)" ELSE "")
                      \o ", // " \o repr_terminal(terminals[i]))]
    \o <<write(0, "}"), write(0, ""),
         write(0, "impl Token {"),
         write(1, "pub fn get_id(&self) -> TerminalId {"),
         write(2, "// This switch should be optimized away."),
         write(2, "match self {")>>
    \o [i \in DOMAIN terminals |->
          write(3, "Token::" \o terminal_name(terminals[i])
                      \o (IF terminals[i] \in variable THEN "(_)" ELSE "")
                      \o " => TerminalId::" \o terminal_name(terminals[i])
                      \o ",")]
    \o <<write(2, "}"), write(1, "}"), write(0, "}"), write(0, "")>>

action_cell(row, t) ==
    (IF t \in Range(keys(row)) THEN str_of_int(get(row, t, 0))
     ELSE "ERROR") \o ","

actions(states, terminals) ==
    <<write(0, "static ACTIONS: [i64; "
                  \o str_of_int(Len(states) * Len(terminals)) \o "] = [")>>
    \o flatten([i \in DOMAIN states |->
          <<write(1, "// " \o str_of_int(i - 1) \o ". "
                        \o (IF states[i].traceback = "" THEN "<empty>"
                            ELSE states[i].traceback)),
            write(1, join(" ", [k \in DOMAIN terminals |->
                        action_cell(states[i].action_row, terminals[k])]))>>
          \o (IF i < Len(states) THEN <<write(0, "")>> ELSE <<>>)])
    \o <<write(0, "];"), write(0, "")>>




\* check_camel_case: the exception raised, with the two nonterminals

\* the name of a nonterminal, without its arguments
name_of(nt) == IF nt.kind = "Nt" THEN nt.name ELSE nt

check_camel_case_comparing_names(nts) ==
    LET clashes == {j \in DOMAIN nts :
                       \E i \in 1..(j - 1) : name_of(nts[i]) = name_of(nts[j])}
    IN IF clashes = {} THEN Ok
       ELSE LET j == CHOOSE k \in clashes : \A m \in clashes : k <= m
                seen == CHOOSE i \in 1..(j - 1) :
                           /\ name_of(nts[i]) = name_of(nts[j])
                           /\ \A m \in (i + 1)..(j - 1) :
                                 name_of(nts[m]) # name_of(nts[j])
            IN "ValueError: " \o format(nts[seen]) \o " and "
                  \o format(nts[j])
                  \o " have the same camel-case spelling ("
                  \o nonterminal_to_camel(nts[j]) \o ")"

check_camel_case(nts) ==
    LET clashes == {j \in DOMAIN nts :
                       \E i \in 1..(j - 1) :
                          nonterminal_to_camel(nts[i])
                             = nonterminal_to_camel(nts[j])}
    IN IF clashes = {} THEN Ok
       ELSE LET j == CHOOSE k \in clashes : \A m \in clashes : k <= m
                seen == CHOOSE i \in 1..(j - 1) :
                           /\ nonterminal_to_camel(nts[i])
                                 = nonterminal_to_camel(nts[j])
                           /\ \A m \in (i + 1)..(j - 1) :
                                 nonterminal_to_camel(nts[m])
                                    # nonterminal_to_camel(nts[j])
            IN "ValueError: " \o format(nts[seen]) \o " and "
                  \o format(nts[j])
                  \o " have the same camel-case spelling ("
                  \o nonterminal_to_camel(nts[j]) \o ")"

RECURSIVE type_names(_)
type_names(ty) ==
    IF ty.kind = "NtType" THEN <<ty.name>>
    ELSE IF ty.kind = "OptionType" THEN type_names(ty.t)
    ELSE <<>>

\* iterating the dict nt_types visits its keys, which are no types
get_associated_type_names(methods) ==
    OrderedSet(flatten([i \in DOMAIN methods |->
                            type_names(methods[i].def.return_type)]))

RECURSIVE type_to_rust(_, _, _)
type_to_rust(ty, handler, boxed) ==
    IF ty = UnitType THEN "()"
    ELSE IF ty = Str("str") THEN "String"
    ELSE IF ty = Str("bool") THEN "bool"
    ELSE IF ty.kind = "NtType"
    THEN LET rty == IF handler = "" THEN ty.name
                    ELSE handler \o "::" \o ty.name
         IN IF boxed THEN "Box<" \o rty \o ">" ELSE rty
    ELSE "Option<" \o type_to_rust(ty.t, handler, boxed) \o ">"

select(s, keep(_)) ==
    LET upto[k \in 0..Len(s)] ==
            IF k = 0 THEN <<>>
            ELSE IF keep(s[k]) THEN Append(upto[k - 1], s[k])
            ELSE upto[k - 1]
    IN upto[Len(s)]

\* the types of the arguments that are passed, in Rust
arg_types(method, handler, boxed) ==
    LET passed == select(method.argument_types, LAMBDA ty : ty # UnitType)
    IN [i \in DOMAIN passed |-> type_to_rust(passed[i], handler, boxed)]

return_type_tag(method) ==
    IF method.return_type = UnitType THEN ""
    ELSE " -> " \o type_to_rust(method.return_type, "Self", FALSE)

handler_trait(methods) ==
    <<write(0, "pub trait Handler {")>>
    \o [i \in DOMAIN get_associated_type_names(methods) |->
          write(1, "type " \o get_associated_type_names(methods)[i] \o ";")]
    \o [i \in DOMAIN methods |->
          LET types == arg_types(methods[i].def, "Self", FALSE)
          IN write(1, "fn " \o method_name_to_rust(methods[i].key)
                \o "(&self, "
                \o join(", ", [k \in DOMAIN types |->
                      "a" \o str_of_int(k - 1) \o ": " \o types[k]])
                \o ")" \o return_type_tag(methods[i].def) \o ";")]
    \o <<write(0, "}"), write(0, "")>>

nt_node(methods) ==
    <<write(0, "pub mod concrete {")>>
    \o flatten([n \in DOMAIN get_associated_type_names(methods) |->
          LET name == get_associated_type_names(methods)[n]
              mine == select(methods,
                             LAMBDA m : m.def.return_type.name = name)
          IN <<write(0, "#[derive(Debug)]"),
               write(0, "pub enum " \o name \o " {")>>
             \o [i \in DOMAIN mine |->
                   write(1, to_camel_case(method_name_to_rust(mine[i].key))
                         \o "(" \o join(", ", arg_types(mine[i].def, "", TRUE))
                         \o "),")]
             \o <<write(0, "}"), write(0, "")>>])
    \o <<write(0, "}"), write(0, "")>>

nt_node_impl(methods) ==
    <<write(0, "pub struct DefaultHandler {}"),
      write(0, ""),
      write(0, "impl Handler for DefaultHandler {")>>
    \o [i \in DOMAIN get_associated_type_names(methods) |->
          LET name == get_associated_type_names(methods)[i]
          IN write(1, "type " \o name \o " = Box<concrete::" \o name \o ">;")]
    \o flatten([i \in DOMAIN methods |->
          LET types == arg_types(methods[i].def, "Self", FALSE)
              rust_name == method_name_to_rust(methods[i].key)
          IN <<write(1, "fn " \o rust_name \o "(&self"
                  \o join("", [k \in DOMAIN types |->
                        ", a" \o str_of_int(k - 1) \o ": " \o types[k]])
                  \o ")" \o return_type_tag(methods[i].def) \o " {"),
               write(2, "Box::new(concrete::"
                  \o methods[i].def.return_type.name \o "::"
                  \o to_camel_case(rust_name) \o "("
                  \o join(", ", [k \in DOMAIN types |->
                        "a" \o str_of_int(k - 1)])
                  \o "))"),
               write(1, "}")>>])
    \o <<write(0, "}"), write(0, "")>>

nonterminal_id(nts) ==
    <<write(0, "#[derive(Clone, Copy, Debug, PartialEq)]"),
      write(0, "pub enum NonterminalId {")>>
    \o [i \in DOMAIN nts |->
          write(1, nonterminal_to_camel(nts[i]) \o " = "
                      \o str_of_int(i - 1) \o ",")]
    \o <<write(0, "}"), write(0, "")>>

goto(states, nts) ==
    <<write(0, "static GOTO: [usize; "
                  \o str_of_int(Len(states) * Len(nts)) \o "] = [")>>
    \o [i \in DOMAIN states |->
          write(1, join(" ", [k \in DOMAIN nts |->
                      str_of_int(get(states[i].ctn_row, nts[k], 0)) \o ","]))]
    \o <<write(0, "];"), write(0, "")>>

\* Nt.pretty
arg_to_str(name, value) ==
    IF value = Bool(TRUE) THEN "+" \o name
    ELSE IF value = Bool(FALSE) THEN "~" \o name
    ELSE IF value.kind = "Var"
    THEN IF value.name = name THEN "?" \o name ELSE name \o "=" \o value.name
    ELSE name \o "=" \o repr_arg(value)

pretty(nt) ==
    IF nt.args = <<>> THEN nt.name.s
    ELSE nt.name.s \o "["
         \o join(", ", [i \in DOMAIN nt.args |->
                           arg_to_str(nt.args[i][1], nt.args[i][2])])
         \o "]"

\* Grammar.element_to_str; the lookahead sets written hold one terminal at
\* most, so that list(e.set) has one order
RECURSIVE element_to_str(_, _)
element_to_str(g, e) ==
    IF e.kind = "Nt" THEN pretty(e)
    ELSE IF e.kind = "str"
    THEN IF e \in g.variable_terminals THEN e.s ELSE "\"" \o e.s \o "\""
    ELSE IF e.kind = "Optional" THEN element_to_str(g, e.inner) \o "?"
    ELSE IF e.kind = "LookaheadRule"
    THEN IF Cardinality(e.set) = 1
         THEN "[lookahead " \o (IF e.positive THEN "==" ELSE "!=") \o " "
              \o repr(CHOOSE t \in e.set : TRUE) \o "]"
         ELSE "[lookahead " \o (IF e.positive THEN "in" ELSE "not in")
              \o " {}]"
    ELSE "ErrorToken"

RECURSIVE expr_to_str(_)
expr_to_str(expr) ==
    IF expr.kind = "int" THEN "$" \o str_of_int(expr.i)
    ELSE IF expr.kind = "CallMethod"
    THEN expr.method.s \o "("
         \o join(", ", [i \in DOMAIN expr.args |-> expr_to_str(expr.args[i])])
         \o ")"
    ELSE IF expr = None THEN "None"
    ELSE IF expr.kind = "Some" THEN "Some(" \o expr_to_str(expr.inner) \o ")"
    ELSE "<accept>"

production_to_str(g, nt, rhs, action) ==
    element_to_str(g, nt) \o " ::= "
       \o (IF rhs = <<>> THEN "[empty]"
           ELSE join(" ", [i \in DOMAIN rhs |-> element_to_str(g, rhs[i])]))
       \o " => " \o expr_to_str(action)

RECURSIVE element_type(_, _)
element_type(g, e) ==
    IF e.kind = "str"
    THEN IF e \in g.nonterminals THEN get(g.nt_types, e, None)
         ELSE IF e \in g.variable_terminals THEN Str("str")
         ELSE UnitType
    ELSE IF e.kind = "Optional" THEN OptionType(element_type(g, e.inner))
    ELSE get(g.nt_types, e.name, None)

\* compile_reduce_expr: the Rust expression, and the indices it marks in
\* variable_used
RECURSIVE compile_reduce_expr(_, _)
compile_reduce_expr(g, expr) ==
    IF expr.kind = "CallMethod"
    THEN LET method_type == get(g.methods, expr.method.s, None)
             passed == select([i \in DOMAIN expr.args |->
                                  <<method_type.argument_types[i],
                                    expr.args[i]>>],
                              LAMBDA pair : pair[1] # UnitType)
         IN "handler." \o method_name_to_rust(expr.method.s) \o "("
            \o join(", ", [i \in DOMAIN passed |->
                              compile_reduce_expr(g, passed[i][2])])
            \o ")"
    ELSE IF expr.kind = "Some"
    THEN "Some(" \o compile_reduce_expr(g, expr.inner) \o ")"
    ELSE IF expr = None THEN "None"
    ELSE "x" \o str_of_int(expr.i)


RECURSIVE variable_used(_, _)
variable_used(g, expr) ==
    IF expr.kind = "CallMethod"
    THEN LET method_type == get(g.methods, expr.method.s, None)
         IN UNION {variable_used(g, expr.args[i]) :
                      i \in {k \in DOMAIN expr.args :
                                method_type.argument_types[k] # UnitType}}
    ELSE IF expr.kind = "Some" THEN variable_used(g, expr.inner)
    ELSE IF expr = None THEN {}
    ELSE {expr.i}

rust_ty(ty) ==
    IF ty.kind = "NtType" THEN "*mut concrete::" \o ty.name
    ELSE "*mut " \o type_to_rust(ty, "Self", FALSE)

reduce_pops_in_ascending_order(g, prod) ==
    LET elements == select(prod.rhs, is_concrete_element)
        n == Len(elements)
    IN [k \in 1..n |->
          LET index == k - 1
          IN IF index \in variable_used(g, prod.action)
             THEN write(3, "let x" \o str_of_int(index)
                     \o " = unsafe { Box::from_raw(stack.pop().unwrap() as "
                     \o rust_ty(element_type(g, elements[index + 1]))
                     \o ") };")
             ELSE write(3, "stack.pop();")]

\* the pops of one arm: the elements from the last to the first
reduce_pops(g, prod) ==
    LET elements == select(prod.rhs, is_concrete_element)
        n == Len(elements)
    IN [k \in 1..n |->
          LET index == n - k
          IN IF index \in variable_used(g, prod.action)
             THEN write(3, "let x" \o str_of_int(index)
                     \o " = unsafe { Box::from_raw(stack.pop().unwrap() as "
                     \o rust_ty(element_type(g, elements[index + 1]))
                     \o ") };")
             ELSE write(3, "stack.pop();")]

reduce_arm(g, i, prod) ==
    <<write(2, str_of_int(i) \o " => {"),
      write(3, "// " \o production_to_str(g, prod.nt, prod.rhs, prod.action))>>
    \o reduce_pops(g, prod)
    \o <<write(3, "stack.push(Box::into_raw("
                     \o compile_reduce_expr(g, prod.action) \o ") as *mut ());"),
         write(3, "NonterminalId::" \o nonterminal_to_camel(prod.nt)),
         write(2, "}")>>

reduce(g, prods, nts) ==
    <<write(0, "fn reduce(handler: &DefaultHandler, prod: usize, "
                  \o "stack: &mut Vec<*mut ()>) -> NonterminalId {"),
      write(1, "match prod {")>>
    \o flatten([i \in DOMAIN prods |->
                   IF prods[i].nt \in Range(nts)
                   THEN reduce_arm(g, i - 1, prods[i])
                   ELSE <<>>])
    \o <<write(2, "_ => panic!(\"no such production: {}\", prod),"),
         write(1, "}"), write(0, "}"), write(0, "")>>

entry(g, states, terminals, nts, init_state_map) ==
    <<write(0, "static TABLES: ParserTables<'static> = ParserTables {"),
      write(1, "state_count: " \o str_of_int(Len(states)) \o ","),
      write(1, "action_table: &ACTIONS,"),
      write(1, "action_width: " \o str_of_int(Len(terminals)) \o ","),
      write(1, "goto_table: &GOTO,"),
      write(1, "goto_width: " \o str_of_int(Len(nts)) \o ","),
      write(0, "};"), write(0, "")>>
    \o flatten([i \in DOMAIN init_state_map |->
          LET init_nt == init_state_map[i].key
          IN <<write(0, "pub fn parse_" \o format(init_nt.name)
                           \o "<In: TokenStream<Token = Token>>("),
               write(1, "handler: &DefaultHandler,"),
               write(1, "tokens: In,"),
               write(0, ") -> Result<"
                  \o type_to_rust(get(g.nt_types, init_nt.name, None),
                                  "concrete", TRUE) \o "> {"),
               write(1, "let result = parser_runtime::parse(handler, tokens, "
                  \o str_of_int(init_state_map[i].def) \o ", &TABLES, reduce)?;"),
               write(1, "Ok(unsafe { Box::from_raw(result as *mut _) } )"),
               write(0, "}"), write(0, "")>>])

\* the text emit writes before check_camel_case, and the text it writes after
emitted_before_check(ps) ==
    LET terminals == writer_terminals(ps.states)
    IN header
       \o terminal_id(terminals)
       \o token(terminals, ps.grammar.variable_terminals)
       \o actions(ps.states, terminals)

emitted_after_check(ps) ==
    LET terminals == writer_terminals(ps.states)
        nts == writer_nonterminals(ps.states)
    IN handler_trait(ps.grammar.methods)
       \o nt_node(ps.grammar.methods)
       \o nt_node_impl(ps.grammar.methods)
       \o nonterminal_id(nts)
       \o goto(ps.states, nts)
       \o reduce(ps.grammar, ps.prods, nts)
       \o entry(ps.grammar, ps.states, terminals, nts, ps.init_state_map)

(***************************************************************************)
(* The parser states handed to the Rust backend.                           *)
(***************************************************************************)
NtIdentities ==
    {Str("FooBar"), Str("Foo_Bar"), Str("expr"), Str("ExprIn"),
     Nt(Str("Expr"), <<>>), Nt(Str("Expr"), <<<<"In", Bool(TRUE)>>>>),
     Nt(Str("Expr"), <<<<"In", Bool(FALSE)>>>>)}

TerminalRows ==
    {<<>>,
     <<Entry(Str("x"), 1), Entry(Str(";"), 0)>>,
     <<Entry(None, 0), Entry(ErrorToken, 1), Entry(Str("=>"), 1),
       Entry(Str("Var"), 0)>>}

\* the bodies and reduce expressions of the production of a nonterminal
RustBodies(nt) ==
    {[rhs |-> <<>>, action |-> None],
     [rhs |-> <<Str("x")>>, action |-> PyInt(0)],
     [rhs |-> <<Str("Var"), LookaheadRule({Str("x")}, FALSE), nt>>,
      action |-> CallMethod(Str("m"), <<PyInt(0), PyInt(1)>>)],
     [rhs |-> <<Str("x"), ErrorToken, Optional(nt)>>,
      action |-> CallMethod(Str("FooBar 1"), <<PyInt(0), Some(PyInt(1))>>)],
     [rhs |-> <<nt, Str(";")>>, action |-> PyInt(0)],
     [rhs |-> <<Str("Var"), Str("Var")>>, action |-> Some(PyInt(1))]}

GoalInitNt == Nt(InitNt(Str("goal")), <<>>)

RustGrammar(nts) ==
    [nonterminals |-> {nts[i] : i \in DOMAIN nts},
     variable_terminals |-> {Str("Var")},
     nt_types |->
        <<Entry(InitNt(Str("goal")), NtType("Goal"))>>
        \o OrderedSet([i \in DOMAIN nts |->
                           Entry(name_of(nts[i]), NtType(name_of(nts[i]).s))]),
     methods |->
        <<Entry("m", MethodType(<<Str("str"),
                                  NtType(name_of(nts[1]).s)>>,
                                NtType(name_of(nts[1]).s))),
          Entry("FooBar 1",
                MethodType(<<UnitType, OptionType(NtType(name_of(nts[1]).s))>>,
                           NtType("Goal")))>>]

EmptyGrammar ==
    [nonterminals |-> {}, variable_terminals |-> {Str("Var")},
     nt_types |-> <<Entry(InitNt(Str("goal")), NtType("Goal"))>>,
     methods |-> <<>>]

RustParserStates(nts, row, body) ==
    [grammar |-> IF nts = <<>> THEN EmptyGrammar ELSE RustGrammar(nts),
     prods |->
        <<Prod(GoalInitNt, IF nts = <<>> THEN <<>> ELSE <<nts[1]>>, Accept)>>
        \o [i \in DOMAIN nts |->
               IF i = 1 THEN Prod(nts[1], body.rhs, body.action)
               ELSE Prod(nts[i], <<>>, None)],
     states |->
        <<ParserState(row, [i \in DOMAIN nts |-> Entry(nts[i], i)], ""),
          ParserState([i \in DOMAIN row |-> row[Len(row) + 1 - i]],
                      IF nts = <<>> THEN <<>>
                      ELSE <<Entry(nts[Len(nts)], 0)>>,
                      "x")>>,
     init_state_map |-> <<Entry(GoalInitNt, 0)>>]

InitEmit ==
    /\ NoLookaheadState
    /\ NoGrammarArguments
    /\ pc = "emit"
    /\ \E nts \in {s \in SeqsUpTo(NtIdentities, MaxNonterminals) :
                        \A i, j \in DOMAIN s : s[i] = s[j] => i = j},
          row \in TerminalRows,
          text \in {<<>>, <<"// earlier text\n">>} :
          \E body \in IF nts = <<>> THEN {[rhs |-> <<>>, action |-> None]}
                      ELSE RustBodies(nts[1]) :
             call = [parser_states |-> RustParserStates(nts, row, body),
                     out |-> text]
    /\ result = Unset

\* write_rust_parser: RustParserWriter(out, parser_states).emit(); the text
\* in the stream when it returns or raises
Emit ==
    /\ pc = "emit"
    /\ LET ps == call.parser_states
           raised == check_camel_case(writer_nonterminals(ps.states))
       IN result' =
             [out |-> IF raised = Ok
                      THEN call.out \o emitted_before_check(ps)
                             \o emitted_after_check(ps)
                      ELSE call.out \o emitted_before_check(ps),
              raised |-> raised]
    /\ pc' = "emitted"
    /\ UNCHANGED <<a, b, rule, nonterminals, goal_nts, variable_terminals,
                   type_info, grammar, self, call>>

(***************************************************************************)
(* The actions of actions.py and the parse table handed to the Python      *)
(* backend.                                                                *)
(***************************************************************************)
Reduce(nt, pop, replay) ==
    [kind |-> "Reduce", nt |-> nt, pop |-> pop, replay |-> replay]
Lookahead == [kind |-> "Lookahead"]
CheckNotOnNewLine(offset) == [kind |-> "CheckNotOnNewLine", offset |-> offset]
FilterFlag(flag, value) == [kind |-> "FilterFlag", flag |-> flag, value |-> value]
PushFlag(flag, value) == [kind |-> "PushFlag", flag |-> flag, value |-> value]
PopFlag(flag) == [kind |-> "PopFlag", flag |-> flag]
FunCall(method, args, set_to, offset) ==
    [kind |-> "FunCall", method |-> method, args |-> args, set_to |-> set_to,
     offset |-> offset]
\* actions.Seq; Seq itself is the operator of the module Sequences
SeqOf(acts) == [kind |-> "Seq", actions |-> acts]

\* a state of the table: its index, its edges other than epsilon edges, its
\* epsilon edges, what debug_context and get_error_symbol return for it
TableState(index, row, epsilon, debug_context, error_symbol) ==
    [index |-> index, row |-> row, epsilon |-> epsilon,
     debug_context |-> debug_context, error_symbol |-> error_symbol]

\* state.edges()
edges(state) == state.row \o state.epsilon

(***************************************************************************)
(* emit/python.py: write_python_parse_table.  The text is the sequence of  *)
(* strings passed to out.write.                                            *)
(***************************************************************************)
\* repr() of a value of a table
repr_value(v) ==
    IF v = None THEN "None"
    ELSE IF v.kind = "bool" THEN (IF v.v THEN "True" ELSE "False")
    ELSE IF v.kind = "int" THEN str_of_int(v.i)
    ELSE repr(v)

stack_value(offset) == "parser.stack[" \o str_of_int(offset) \o "].value"

\* map_with_offset, for one argument
map_with_offset(act, arg) ==
    IF arg = None THEN "None"
    ELSE IF arg.kind = "int" THEN stack_value(0 - (arg.i + act.offset))
    ELSE IF arg.kind = "str" THEN arg.s
    ELSE IF arg.inner.kind = "int"
    THEN stack_value(0 - (arg.inner.i + act.offset))
    ELSE "Some(" \o arg.inner.s \o ")"

\* what write_action leaves behind: the text written, the indentation to go
\* on with, whether the caller is to push the destination, the method calls
\* added to methods and the exception raised
Written(text, indentation, res, methods, raised) ==
    [text |-> text, indent |-> indentation, res |-> res, methods |-> methods,
     raised |-> raised]

write_reduce_keeping_replayed_entries(act, ind) ==
    Written(<<ind \o "replay = [StateTermValue(0, " \o repr(act.nt)
                 \o ", value)]\n">>
            \o (IF act.replay > 0
                THEN <<ind \o "replay = replay + parser.stack[-"
                          \o str_of_int(act.replay) \o ":]\n">>
                ELSE <<>>)
            \o (IF act.pop > 0
                THEN <<ind \o "parser.stack = parser.stack[:-"
                          \o str_of_int(act.pop) \o "]\n">>
                ELSE <<>>)
            \o <<ind \o "parser.shift_list(replay, lexer)\n">>,
            ind, FALSE, <<>>, Ok)

write_reduce(act, ind) ==
    Written(<<ind \o "replay = [StateTermValue(0, " \o repr(act.nt)
                 \o ", value)]\n">>
            \o (IF act.replay > 0
                THEN <<ind \o "replay = replay + parser.stack[-"
                          \o str_of_int(act.replay) \o ":]\n">>
                ELSE <<>>)
            \o (IF act.replay + act.pop > 0
                THEN <<ind \o "parser.stack = parser.stack[:-"
                          \o str_of_int(act.replay + act.pop) \o "]\n">>
                ELSE <<>>)
            \o <<ind \o "parser.shift_list(replay, lexer)\n">>,
            ind, FALSE, <<>>, Ok)

write_fun_call(act, ind) ==
    IF act.method = "id"
    THEN Written(<<ind \o act.set_to \o " = "
                      \o map_with_offset(act, act.args[1]) \o "\n">>,
                 ind, TRUE, <<>>, Ok)
    ELSE IF act.method = "accept"
    THEN Written(<<ind \o "raise ShiftAccept()\n">>, ind, TRUE, <<>>, Ok)
    ELSE Written(<<ind \o act.set_to \o " = parser.methods." \o act.method
                      \o "("
                      \o join(", ", [i \in DOMAIN act.args |->
                                        map_with_offset(act, act.args[i])])
                      \o ")\n">>,
                 ind, TRUE, <<act>>, Ok)

\* write_action for an action that is no Seq
write_simple_action(act, ind) ==
    IF act.kind = "Reduce" THEN write_reduce(act, ind)
    ELSE IF act.kind = "Lookahead"
    THEN Written(<<>>, ind, FALSE, <<>>,
                 "ValueError: Unexpected Lookahead action")
    ELSE IF act.kind = "CheckNotOnNewLine"
    THEN Written(IF act.offset = -1
                 THEN <<ind \o "if lexer.saw_line_terminator():",
                        ind \o "    raise ShiftError()">>
                 ELSE <<>>,
                 ind \o "    ", TRUE, <<>>, Ok)
    ELSE IF act.kind = "FilterFlag"
    THEN Written(<<ind \o "if parser.flags[" \o act.flag \o "][-1] == "
                      \o repr_value(act.value) \o ":\n">>,
                 ind \o "    ", TRUE, <<>>, Ok)
    ELSE IF act.kind = "PushFlag"
    THEN Written(<<ind \o "parser.flags[" \o act.flag \o "].append("
                      \o repr_value(act.value) \o ")\n">>,
                 ind, TRUE, <<>>, Ok)
    ELSE IF act.kind = "PopFlag"
    THEN Written(<<ind \o "parser.flags[" \o act.flag \o "].pop()\n">>,
                 ind, TRUE, <<>>, Ok)
    ELSE write_fun_call(act, ind)

\* the loop of write_action over the actions of a Seq, from the k-th on
RECURSIVE write_seq(_, _, _, _)
write_seq(acts, k, ind, res) ==
    IF k > Len(acts) THEN Written(<<>>, ind, res, <<>>, Ok)
    ELSE LET first == write_simple_action(acts[k], ind)
         IN IF first.raised # Ok THEN first
            ELSE LET rest == write_seq(acts, k + 1, first.indent, first.res)
                 IN Written(first.text \o rest.text, rest.indent, rest.res,
                            first.methods \o rest.methods, rest.raised)

write_action(act, ind) ==
    IF act.kind = "Seq" THEN write_seq(act.actions, 1, ind, TRUE)
    ELSE write_simple_action(act, ind)

\* the body of the loop over state.edges(): the code of one edge
write_edge(edge) ==
    LET done == write_action(edge[1], "    ")
    IN IF done.raised # Ok THEN done
       ELSE Written(done.text
                    \o (IF done.res
                        THEN <<done.indent
                                  \o "parser.stack.append(StateTermValue("
                                  \o str_of_int(edge[2]) \o ", None, value))\n">>
                        ELSE <<>>)
                    \o <<done.indent \o "return\n">>,
                    done.indent, done.res, done.methods, Ok)

\* what was written one after the other, up to the first exception
RECURSIVE write_each(_)
write_each(parts) ==
    IF parts = <<>> THEN Written(<<>>, "", TRUE, <<>>, Ok)
    ELSE IF parts[1].raised # Ok THEN parts[1]
    ELSE LET rest == write_each(Tail(parts))
         IN Written(parts[1].text \o rest.text, "", TRUE,
                    parts[1].methods \o rest.methods, rest.raised)

has_procedure_always(state) == TRUE

\* a state gets a procedure unless state.epsilon == []
has_procedure(state) == state.epsilon # <<>>

write_state_actions(i, state) ==
    IF ~has_procedure(state) THEN Written(<<>>, "", TRUE, <<>>, Ok)
    ELSE LET head == Written(<<"def state_" \o str_of_int(i)
                                   \o "_actions(parser, lexer):\n",
                                state.debug_context \o "\n",
                                "    value = None\n">>,
                              "", TRUE, <<>>, Ok)
             body == write_each([k \in DOMAIN edges(state) |->
                                   write_edge(edges(state)[k])])
         IN write_each(<<head, body, Written(<<"\n">>, "", TRUE, <<>>, Ok)>>)

\* repr(row) of the dict of a state without epsilon edges
repr_row(row) ==
    "{" \o join(", ", [k \in DOMAIN row |->
                          repr_value(row[k][1]) \o ": "
                             \o str_of_int(row[k][2])])
        \o "}"

actions_list(states) ==
    <<"actions = [\n">>
    \o flatten([i \in DOMAIN states |->
          <<"    # " \o str_of_int(i - 1) \o ".\n"
               \o states[i].debug_context \o "\n",
            IF states[i].epsilon = <<>>
            THEN "    " \o repr_row(edges(states[i])) \o ",\n"
            ELSE "    state_" \o str_of_int(i - 1) \o "_actions,\n",
            "\n">>])
    \o <<"]\n\n">>

\* the table has at most SLICE_LEN states, which is one slice
error_codes(states) ==
    <<"error_codes = [\n">>
    \o (IF states = <<>> THEN <<>>
        ELSE <<"    "
                  \o join(" ", [i \in DOMAIN states |->
                                   repr_value(states[i].error_symbol) \o ","])
                  \o "\n">>)
    \o <<"]\n\n">>

goal_nt_to_init_state(named_goals) ==
    <<"goal_nt_to_init_state = {"
         \o join(", ", [i \in DOMAIN named_goals |->
                           repr_value(named_goals[i][1].name) \o ": "
                              \o str_of_int(named_goals[i][2])])
         \o "}\n\n">>

\* the class DefaultMethods, the set methods iterated in the given order
default_methods(order) ==
    <<"class DefaultMethods:\n">>
    \o [i \in DOMAIN order |->
          "    def " \o order[i].method \o "(self, "
             \o join(", ", [k \in DOMAIN order[i].args |->
                               "x" \o str_of_int(k - 1)])
             \o "): pass\n"]
    \o (IF order = <<>> THEN <<"    pass\n">> ELSE <<>>)
    \o <<"\n">>

parser_class(named_goals) ==
    <<"class Parser(runtime.ParserV2):\n",
      "    def __init__(self, goal"
         \o (IF Len(named_goals) = 1
             THEN "=" \o repr_value(named_goals[1][1].name) ELSE "")
         \o ", builder=None):\n",
      "        if builder is None:\n",
      "            builder = DefaultMethods()\n",
      "        super().__init__(actions, error_codes, "
         \o "goal_nt_to_init_state[goal], builder)\n",
      "\n">>

imports(parse_table) ==
    <<"from jsparagus import runtime\n">>
    \o (IF \E i \in DOMAIN parse_table.nonterminals :
              parse_table.nonterminals[i].kind = "Nt"
        THEN <<"from jsparagus.runtime import Nt, InitNt, End, ErrorToken, "
                  \o "StateTermValue, ShiftError, ShiftAccept\n">>
        ELSE <<>>)
    \o <<"\n">>

\* the procedures of the states, with the method calls met on the way
state_procedures(parse_table) ==
    write_each([i \in DOMAIN parse_table.states |->
                   write_state_actions(i - 1, parse_table.states[i])])

\* the orders in which a set can be iterated
Orders(set) ==
    {order \in [1..Cardinality(set) -> set] :
        \A i, j \in DOMAIN order : order[i] = order[j] => i = j}

methods_of(parse_table) == Range(state_procedures(parse_table).methods)

\* write_python_parse_table, with the order in which methods is iterated
write_python_parse_table(parse_table, order) ==
    LET procedures == state_procedures(parse_table)
    IN IF procedures.raised # Ok
       THEN [out |-> imports(parse_table) \o procedures.text,
             raised |-> procedures.raised]
       ELSE [out |-> imports(parse_table) \o procedures.text
                        \o actions_list(parse_table.states)
                        \o error_codes(parse_table.states)
                        \o goal_nt_to_init_state(parse_table.named_goals)
                        \o default_methods(order)
                        \o parser_class(parse_table.named_goals),
             raised |-> Ok]

(***************************************************************************)
(* The parse tables handed to the Python backend.                          *)
(***************************************************************************)
ReducedNts == {Str("E"), Nt(Str("Expr"), <<<<"In", Bool(TRUE)>>>>)}

Reduces ==
    {Reduce(nt, pop, replay) :
        nt \in ReducedNts, pop \in 0..MaxPop, replay \in 0..MaxReplay}

CallM1(offset) ==
    FunCall("m1", <<PyInt(0), Some(PyInt(1))>>, "value", offset)
CallM2 == FunCall("m2", <<Str("x"), None, Some(Str("y"))>>, "value", 0)

\* a Seq changes the stack in its last action only
TableActions ==
    Reduces
    \cup {SeqOf(<<CallM1(offset), Reduce(Str("E"), 2, replay)>>) :
             offset \in 0..1, replay \in 0..1}
    \cup {FunCall("id", <<PyInt(0)>>, "value", 0),
          FunCall("accept", <<>>, "value", 0),
          CallM2,
          SeqOf(<<FilterFlag("f", Bool(TRUE)), CallM1(1), CallM2>>),
          SeqOf(<<CheckNotOnNewLine(-1), CallM2, CallM1(0),
                Reduce(Str("E"), 1, 0)>>),
          PushFlag("f", Bool(FALSE)), PopFlag("f"),
          CheckNotOnNewLine(-1), CheckNotOnNewLine(0),
          Lookahead, SeqOf(<<CallM1(0), Lookahead>>)}

FlatRows == {<<>>, <<<<Str("x"), 1>>, <<Nt(Str("Expr"), <<>>), 0>>>>}

FirstStates ==
    {TableState(0, row, <<>>, "", None) : row \in FlatRows}
    \cup {TableState(0, <<>>, <<<<act, 1>>>>, "", None) : act \in TableActions}
    \cup {TableState(0, <<>>, <<<<CallM2, 1>>, <<Reduce(Str("E"), 1, 1), 0>>>>,
                     "", Str("asi"))}

SecondStates ==
    {TableState(1, row, <<>>, "    # 1", None) : row \in FlatRows}
    \cup {TableState(1, <<>>, <<<<act, 0>>>>, "    # 1", None) :
             act \in {CallM1(0), CallM2, Reduce(Str("E"), 0, 0)}}

GoalLists2 ==
    {<<<<Nt(InitNt(Str("goal")), <<>>), 0>>>>,
     <<<<Nt(InitNt(Str("goal")), <<>>), 0>>,
       <<Nt(InitNt(Str("other")), <<>>), 1>>>>}

InitWriteTable ==
    /\ NoLookaheadState
    /\ NoGrammarArguments
    /\ pc = "write table"
    /\ \E first \in FirstStates,
          rest \in {<<>>} \cup {<<second>> : second \in SecondStates},
          nts \in {<<Str("E")>>, <<Str("E"), Nt(Str("Expr"), <<>>)>>},
          named_goals \in GoalLists2 :
          call = [parse_table |-> [nonterminals |-> nts,
                                   states |-> <<first>> \o rest,
                                   named_goals |-> named_goals]]
    /\ result = Unset

\* write_python_parse_table(out, parse_table): the text in the stream when it
\* returns or raises; the set methods is iterated in some order
WriteTable ==
    /\ pc = "write table"
    /\ \E order \in Orders(methods_of(call.parse_table)) :
          result' = write_python_parse_table(call.parse_table, order)
    /\ pc' = "table written"
    /\ UNCHANGED <<a, b, rule, nonterminals, goal_nts, variable_terminals,
                   type_info, grammar, self, call>>

(***************************************************************************)
(* Grammar.intern.  An object is a value together with its identity: two   *)
(* objects are equal (==) when their values are, and identical (is) when   *)
(* they are one object.                                                    *)
(***************************************************************************)
Object(id, value) == [id |-> id, value |-> value]

\* Python's == on the values of a grammar: True == 1 and False == 0
RECURSIVE eq_key(_)
eq_key(v) ==
    IF v = Bool(TRUE) THEN PyInt(1)
    ELSE IF v = Bool(FALSE) THEN PyInt(0)
    ELSE IF v.kind = "Nt"
    THEN Nt(v.name, [i \in DOMAIN v.args |->
                        <<v.args[i][1], eq_key(v.args[i][2])>>])
    ELSE IF v.kind = "Optional" THEN Optional(eq_key(v.inner))
    ELSE v

py_eq(x, y) == eq_key(x.value) = eq_key(y.value)

\* self._cache[obj], when there is such a key
cached(cache, obj) ==
    cache[CHOOSE i \in DOMAIN cache : py_eq(cache[i].key, obj)].def

intern_keeping_the_latest(cache, obj) ==
    [cache |-> select(cache, LAMBDA kept : ~py_eq(kept.key, obj))
                  \o <<Entry(obj, obj)>>,
     result |-> obj]

\* intern(obj): the cache afterwards and the object returned
intern(cache, obj) ==
    IF \E i \in DOMAIN cache : py_eq(cache[i].key, obj)
    THEN [cache |-> cache, result |-> cached(cache, obj)]
    ELSE [cache |-> Append(cache, Entry(obj, obj)), result |-> obj]

InternedValues ==
    {Nt(Str("A"), <<<<"x", Bool(TRUE)>>>>),
     Nt(Str("A"), <<<<"x", PyInt(1)>>>>),
     Optional(Str("x"))}

\* two objects of every value
Objects == {Object(id, value) : id \in 1..2, value \in InternedValues}

GrammarIds == 1..2

\* two grammars, each with the empty cache of Grammar.__init__
InitIntern ==
    /\ NoLookaheadState
    /\ pc = "intern"
    /\ nonterminals = <<>>
    /\ goal_nts = None
    /\ variable_terminals = <<>>
    /\ type_info = None
    /\ self = Unset
    /\ grammar = [g \in GrammarIds |-> [cache |-> <<>>, interned |-> <<>>]]
    /\ call = Unset
    /\ result = Unset

Interned == Len(grammar[1].interned) + Len(grammar[2].interned)

\* grammar[g].intern(obj)
Intern ==
    /\ pc = "intern"
    /\ Interned < MaxInterns
    /\ \E g \in GrammarIds, obj \in Objects :
          /\ call' = [grammar |-> g, obj |-> obj]
          /\ result' = intern(grammar[g].cache, obj).result
          /\ grammar' = [grammar EXCEPT
                            ![g].cache = intern(@, obj).cache,
                            ![g].interned = Append(@, obj)]
    /\ UNCHANGED <<pc, a, b, rule, nonterminals, goal_nts, variable_terminals,
                   type_info, self>>

(***************************************************************************)
(* Every operation together.                                               *)
(***************************************************************************)
NextDesugarer == NtDefCall

SpecDesugarer == InitNtDef /\ [][NextDesugarer]_vars

NextFinishGrammar == FinishGrammar

SpecFinishGrammar == InitFinishGrammar /\ [][NextFinishGrammar]_vars

NextMethodNames == MethodNames

SpecMethodNames == InitMethodNames /\ [][NextMethodNames]_vars

NextRustWriter == Emit

SpecRustWriter == InitEmit /\ [][NextRustWriter]_vars

NextPythonWriter == WriteTable

SpecPythonWriter == InitWriteTable /\ [][NextPythonWriter]_vars

NextIntern == Intern

SpecIntern == InitIntern /\ [][NextIntern]_vars

Init ==
    \/ InitLookahead
    \/ InitGrammar
    \/ InitNtDef
    \/ InitFinishGrammar
    \/ InitMethodNames
    \/ InitEmit
    \/ InitWriteTable
    \/ InitIntern

Next ==
    \/ Intersect
    \/ Construct
    \/ WithNonterminals
    \/ NtDefCall
    \/ FinishGrammar
    \/ MethodNames
    \/ Emit
    \/ WriteTable
    \/ Intern

Spec == Init /\ [][Next]_vars

(***************************************************************************)
(* What the claims about nt_def speak of, read off the call and its        *)
(* outcome.                                                                *)
(***************************************************************************)
NtDefDone == pc \in {"nt_def returned", "nt_def raised"}
NtDefReturned == pc = "nt_def returned"

Fragment(j) == call.rhs_list[j]
AutoInferred(j) == Fragment(j).reducer = None
Out == result.def.rhs_list

IsNonAsiVariant(lhs) == lhs_name_of(lhs) = Str("ForLexicalDeclaration")

EndsInSemicolon(body) == Len(body) > 0 /\ body[Len(body)] = Str(";")

\* a production the ASI split is for
Qualifies(j) ==
    /\ ~IsNonAsiVariant(call.lhs)
    /\ Len(Fragment(j).body) > 1
    /\ EndsInSemicolon(Fragment(j).body)

Width(j) == IF Qualifies(j) THEN 2 ELSE 1

WidthUpTo(j) ==
    LET upto[k \in 0..Len(call.rhs_list)] ==
            IF k = 0 THEN 0 ELSE upto[k - 1] + Width(k)
    IN upto[j]

\* where the productions of fragment j start in the list nt_def returns
Pos(j) == WidthUpTo(j - 1) + 1

OneProductionPerWidth == Len(Out) = WidthUpTo(Len(call.rhs_list))

ValueElements(body) == {k \in DOMAIN body : is_concrete_element(body[k])}

NamedElement(e) == e.kind = "str" \/ (e.kind = "Nt" /\ e.name.kind = "str")
NameOfElement(e) == IF e.kind = "Nt" THEN e.name.s ELSE e.s

SameGroup(x, y) ==
    \E g \in DOMAIN PRODUCTION_GROUPS :
        re_search(PRODUCTION_GROUPS[g], x) /\ re_search(PRODUCTION_GROUPS[g], y)

\* the body has exactly one element that contributes a value, and the name
\* of the left-hand side and the name of that element match one group
IdentityExpected(j) ==
    /\ Cardinality(ValueElements(Fragment(j).body)) = 1
    /\ \E k \in ValueElements(Fragment(j).body) :
          /\ NamedElement(Fragment(j).body[k])
          /\ SameGroup(call.lhs.name.s, NameOfElement(Fragment(j).body[k]))

RangeTuple(n) == [k \in 1..n |-> PyInt(k - 1)]

(***************************************************************************)
(* C13: a fragment with no explicit reducer gets the forward reference 0   *)
(* exactly when its body has one element that contributes a value and the  *)
(* names of the left-hand side and of that element match the same entry of *)
(* PRODUCTION_GROUPS, and a CallMethod in every other case.                *)
(***************************************************************************)
C13_DefaultReducerIsIdentity ==
    (NtDefDone /\ call.lhs.kind = "lhs") =>
        /\ (Len(call.rhs_list) = 1 /\ AutoInferred(1)) => NtDefReturned
        /\ NtDefReturned =>
              \A j \in DOMAIN call.rhs_list :
                 AutoInferred(j) =>
                    /\ Out[Pos(j)].action = PyInt(0) <=> IdentityExpected(j)
                    /\ ~IdentityExpected(j)
                          => Out[Pos(j)].action.kind = "CallMethod"

Preferred(j) == Out[Pos(j)]
Fallback(j) == Out[Pos(j) + 1]

IsMarker(e) == e.kind = "ErrorSymbol"

\* body with its last element replaced by a marker
WithMarker(body, e) == SubSeq(body, 1, Len(body) - 1) \o <<e>>

SplitInTwo(j) ==
    /\ Pos(j) + 1 <= Len(Out)
    /\ Preferred(j).body = Fragment(j).body
    /\ Len(Fallback(j).body) = Len(Fragment(j).body)
    /\ IsMarker(Fallback(j).body[Len(Fragment(j).body)])
    /\ Fallback(j).body =
          WithMarker(Fragment(j).body, Fallback(j).body[Len(Fragment(j).body)])
    /\ Preferred(j).condition = Fragment(j).condition
    /\ Fallback(j).condition = Fragment(j).condition

(***************************************************************************)
(* C15: every production with more than one body element whose last        *)
(* element is ";" and whose left-hand side is not ForLexicalDeclaration is *)
(* expanded by nt_def into two consecutive productions, whatever its       *)
(* reducer: the first with the original body, the second with the trailing *)
(* ";" replaced by an error-recovery marker, both under the production's   *)
(* condition.  Stated on the calls whose every alternative is such a       *)
(* production.                                                             *)
(***************************************************************************)
C15_AlwaysSplitInTwo ==
    (NtDefDone /\ call.lhs.kind = "lhs"
        /\ \A j \in DOMAIN call.rhs_list : Qualifies(j)) =>
        /\ NtDefReturned
        /\ Len(Out) = 2 * Len(call.rhs_list)
        /\ \A j \in DOMAIN call.rhs_list : SplitInTwo(j)

(***************************************************************************)
(* C16: the marker of the fallback carries the do-while code exactly when  *)
(* the body has 7 elements with "do" at 0, "while" at 2, "(" at 3, ")" at  *)
(* 5 and ";" at 6, and the generic ASI code for every other body that is   *)
(* split.                                                                  *)
(***************************************************************************)
DoWhileShape(body) ==
    /\ Len(body) = 7
    /\ <<body[1], body[3], body[4], body[6], body[7]>>
          = <<Str("do"), Str("while"), Str("("), Str(")"), Str(";")>>

ConcreteBeforeMarker(body) ==
    Cardinality({k \in 1..(Len(body) - 1) : is_concrete_element(body[k])})

AsFragments(productions) ==
    [k \in DOMAIN productions |->
        rhs_line(productions[k].condition, productions[k].body,
                 productions[k].action)]

SplitAgain == nt_def_production_list(call.lhs, AsFragments(Out))

FallbackTwice ==
    LET from[j \in 0..Len(call.rhs_list)] ==
            IF j = 0 THEN <<>>
            ELSE IF Qualifies(j)
            THEN from[j - 1] \o <<Preferred(j), Fallback(j), Fallback(j)>>
            ELSE from[j - 1] \o <<Out[Pos(j)]>>
    IN from[Len(call.rhs_list)]

NotSplit(j) ==
    \/ Fragment(j).body = <<Str(";")>>
    \/ ~EndsInSemicolon(Fragment(j).body)
    \/ IsNonAsiVariant(call.lhs)

Unchanged(j, p) ==
    /\ p.kind = "Production"
    /\ p.body = Fragment(j).body
    /\ p.condition = Fragment(j).condition
    /\ ~AutoInferred(j) => p.action = Fragment(j).reducer

C19_NeverSplit ==
    (NtDefDone /\ call.lhs.kind = "lhs"
        /\ \A j \in DOMAIN call.rhs_list : NotSplit(j)) =>
        /\ NtDefReturned
        /\ Len(Out) = Len(call.rhs_list)
        /\ \A j \in DOMAIN call.rhs_list : Unchanged(j, Out[j])

(***************************************************************************)
(* What the claims about finish_grammar speak of, read off the call and    *)
(* its outcome.                                                            *)
(***************************************************************************)
FinishDone == pc \in {"finish_grammar returned", "finish_grammar raised"}
FinishReturned == pc = "finish_grammar returned"

\* the markers under which the name is defined
MarkersOf(name) ==
    {call.nt_defs[i].eq :
        i \in {k \in DOMAIN call.nt_defs : call.nt_defs[k].name = name}}

GoalMarkers == UNION {MarkersOf(call.goals[i]) : i \in DOMAIN call.goals}

PassedAsNonterminal(name) ==
    \E i \in DOMAIN result.nonterminals : result.nonterminals[i].key = name

(***************************************************************************)
(* C20: in single-grammar mode finish_grammar raises, and no Grammar is    *)
(* constructed, whenever the goal list is empty or the goals are defined   *)
(* under more than one marker; when it constructs a Grammar, all goals are *)
(* defined under one marker, that marker is the selected grammar, and the  *)
(* definitions under it are the nonterminals, none a variable terminal.    *)
(***************************************************************************)
C20_GoalsSelectOneGrammar ==
    (FinishDone /\ call.single_grammar) =>
        /\ call.goals = <<>> => result.kind = "raise"
        /\ Cardinality(GoalMarkers) > 1 => result.kind = "raise"
        /\ FinishReturned =>
              /\ result.kind = "Grammar"
              /\ \E marker \in {":", "::"} :
                    /\ \A i \in DOMAIN call.goals :
                          MarkersOf(call.goals[i]) = {marker}
                    /\ selected_grammar(call.nt_defs, call.goals) = marker
                    /\ \A i \in DOMAIN call.nt_defs :
                          call.nt_defs[i].eq = marker =>
                             /\ PassedAsNonterminal(call.nt_defs[i].name)
                             /\ call.nt_defs[i].name
                                   \notin result.variable_terminals

C20_Witness ==
    /\ FinishReturned
    /\ call.single_grammar
    /\ call.goals = <<Str("Token"), Str("Comment")>>
    /\ Len(call.nt_defs) = 3
    /\ MarkersOf(Str("Script")) = {":"}
    /\ selected_grammar(call.nt_defs, call.goals) = "::"
    /\ result.goal_nts = call.goals
    /\ PassedAsNonterminal(Str("Token"))

(***************************************************************************)
(* The definitions finish_grammar was given, by marker.                    *)
(***************************************************************************)
Selected == selected_grammar(call.nt_defs, call.goals)

NamesUnder(markers) ==
    {call.nt_defs[i].name :
        i \in {k \in DOMAIN call.nt_defs : call.nt_defs[k].eq \in markers}}

NonterminalKeys ==
    {result.nonterminals[i].key : i \in DOMAIN result.nonterminals}

\* the value passed for the name is the definition given for it
PassedAsGiven(name) ==
    \E i \in DOMAIN result.nonterminals, k \in DOMAIN call.nt_defs :
        /\ result.nonterminals[i].key = name
        /\ call.nt_defs[k].name = name
        /\ result.nonterminals[i].def =
              IF call.nt_defs[k].def.kind = "NtDef" THEN call.nt_defs[k].def
              ELSE call.nt_defs[k].def.items

(***************************************************************************)
(* C21 as stated: for either selected marker, the definitions under the    *)
(* other marker are the variable terminals and are not passed to Grammar   *)
(* as nonterminals, and the definitions under the selected marker are.     *)
(***************************************************************************)
C21_OtherGrammarIsVariableTerminals ==
    (FinishReturned /\ call.single_grammar) =>
        /\ result.variable_terminals = NamesUnder({":", "::"} \ {Selected})
        /\ NonterminalKeys = NamesUnder({Selected})

(***************************************************************************)
(* C21, amended: when the selected marker is ":", the definitions under    *)
(* "::" are the variable terminals and are not passed to Grammar, and the  *)
(* definitions under ":" are the nonterminals; when the selected marker is *)
(* "::", or finish_grammar is not in single-grammar mode, every definition *)
(* is passed as a nonterminal and there are no variable terminals.  Each   *)
(* nonterminal is passed with the definition given for it.                 *)
(***************************************************************************)
C21_OnlySyntacticSelectionFolds ==
    FinishReturned =>
        /\ (call.single_grammar /\ Selected = ":") =>
              /\ result.variable_terminals = NamesUnder({"::"})
              /\ NonterminalKeys = NamesUnder({":"})
        /\ (~call.single_grammar \/ Selected = "::") =>
              /\ result.variable_terminals = {}
              /\ NonterminalKeys = NamesUnder({":", "::"})
        /\ \A name \in NonterminalKeys : PassedAsGiven(name)

C21_Witness ==
    /\ FinishReturned
    /\ call.single_grammar
    /\ call.goals = <<Str("Script"), Str("Module")>>
    /\ NamesUnder({"::"}) = {Str("Token")}
    /\ result.variable_terminals = {Str("Token")}
    /\ NonterminalKeys = {Str("Script"), Str("Module")}

(***************************************************************************)
(* C30: two distinct method tags that Grammar validation accepts never get *)
(* the same generated method name, in the Python backend (space replaced   *)
(* by "_P") or in the Rust backend (snake case, then "_p" and the number). *)
(***************************************************************************)
C30_MethodNamesInjective ==
    (pc = "method names written" /\ call.tags[1] # call.tags[2]) =>
        /\ result.python[1] # result.python[2]
        /\ result.rust[1] # result.rust[2]


(***************************************************************************)
(* What the claims about the Rust backend speak of, read off the text      *)
(* written.                                                                *)
(***************************************************************************)
Emitted == pc = "emitted"

ReachableNts == writer_nonterminals(call.parser_states.states)

\* two distinct identities of the table with one camel-case spelling
Collide(i, j) ==
    /\ ReachableNts[i] # ReachableNts[j]
    /\ nonterminal_to_camel(ReachableNts[i])
          = nonterminal_to_camel(ReachableNts[j])

SomeCollision == \E i, j \in DOMAIN ReachableNts : Collide(i, j)

starts_with(s, prefix) ==
    Len(s) >= Len(prefix) /\ SubSeq(s, 1, Len(prefix)) = prefix

contains(s, part) ==
    \E i \in 1..(Len(s) - Len(part) + 1) :
       SubSeq(s, i, i + Len(part) - 1) = part

\* the position of the first line of the text that is the given one
LineOf(text, line) ==
    CHOOSE p \in DOMAIN text :
       text[p] = line /\ \A q \in 1..(p - 1) : text[q] # line

\* the identifier of the k-th member of the NonterminalId enum written
NonterminalIdWritten(k) ==
    LET line == result.out[LineOf(result.out,
                                  "pub enum NonterminalId {\n") + k]
        stop == CHOOSE p \in 5..Len(line) :
                   CharAt(line, p) = " "
                      /\ \A q \in 5..(p - 1) : CharAt(line, q) # " "
    IN SubSeq(line, 5, stop - 1)

C26_NothingWrittenOnCollision ==
    Emitted /\ SomeCollision => result.out = call.out

\* the productions the reduce dispatcher has an arm for
EmittedProds ==
    {i \in DOMAIN call.parser_states.prods :
        call.parser_states.prods[i].nt \in Range(ReachableNts)}

ConcretePops(i) ==
    Cardinality({k \in DOMAIN call.parser_states.prods[i].rhs :
                    call.parser_states.prods[i].rhs[k].kind
                       \notin {"LookaheadRule", "ErrorToken"}})

\* the indices that occur in a reduce expression
RECURSIVE Referenced(_)
Referenced(expr) ==
    IF expr.kind = "int" THEN {expr.i}
    ELSE IF expr.kind = "CallMethod"
    THEN UNION {Referenced(expr.args[k]) : k \in DOMAIN expr.args}
    ELSE IF expr.kind = "Some" THEN Referenced(expr.inner)
    ELSE {}

\* the lines of the arm of production i, after its comment
ArmBody(i) ==
    LET first == LineOf(result.out,
                        write(2, str_of_int(i - 1) \o " => {")) + 2
        last == CHOOSE p \in first..Len(result.out) :
                   /\ result.out[p] = write(2, "}")
                   /\ \A q \in first..(p - 1) : result.out[q] # write(2, "}")
    IN SubSeq(result.out, first, last - 1)

IsBindingPop(line, index) ==
    starts_with(line, indent(3) \o "let x" \o str_of_int(index)
                         \o " = unsafe { Box::from_raw(stack.pop().unwrap()")

IsPlainPop(line) == line = write(3, "stack.pop();")

\* C27: the arm of every production pops once per concrete element, from the
\* last index to the first, binds x_i only for an index the reduce expression
\* refers to, and then pushes once.
C27_ArmPopsConcreteThenPushesOnce ==
    Emitted /\ result.raised = Ok =>
       \A i \in EmittedProds :
          LET arm == ArmBody(i)
              n == ConcretePops(i)
          IN /\ Len(arm) = n + 2
             /\ \A k \in 1..n :
                   \/ IsPlainPop(arm[k])
                   \/ /\ IsBindingPop(arm[k], n - k)
                      /\ (n - k) \in
                            Referenced(call.parser_states.prods[i].action)
             /\ starts_with(arm[n + 1], indent(3) \o "stack.push(")
             /\ \A k \in (n + 1)..(n + 2) : ~contains(arm[k], "stack.pop")
             /\ ~contains(arm[n + 2], "stack.push")

C27_Witness ==
    /\ Emitted /\ result.raised = Ok
    /\ \E i \in EmittedProds :
          /\ ConcretePops(i) = 2
          /\ Len(call.parser_states.prods[i].rhs) = 3
          /\ IsPlainPop(ArmBody(i)[2])
          /\ IsBindingPop(ArmBody(i)[1], 1)

(***************************************************************************)
(* What the claims about the Python backend speak of, read off the text    *)
(* written.                                                                *)
(***************************************************************************)
TableWritten == pc = "table written"
TableCompleted == TableWritten /\ result.raised = Ok

TableStates == call.parse_table.states

\* C23: the text written for a parse table is the same in whatever order
\* the set of method calls is iterated.
C23_TextIndependentOfIterationOrder ==
    TableWritten =>
       \A order \in Orders(methods_of(call.parse_table)) :
          write_python_parse_table(call.parse_table, order).out = result.out

ProcedureHead(i) ==
    "def state_" \o str_of_int(i - 1) \o "_actions(parser, lexer):\n"

Lines(text, line) == {p \in DOMAIN text : text[p] = line}

\* the entry of the i-th state in the actions list: each state has a
\* comment, an entry and an empty line
ActionsEntry(i) ==
    result.out[LineOf(result.out, "actions = [\n") + 3 * (i - 1) + 2]

ActionsListEnd ==
    LineOf(result.out, "actions = [\n") + 3 * Len(TableStates) + 1

\* C28: the actions list has one entry per state, at the position of the
\* state: the row of the state when it has no epsilon edge, the name of its
\* procedure otherwise; a state has a procedure exactly when it has an
\* epsilon edge, and the procedure is written before the list.
C28_OneEntryPerStateProcedureIffEpsilon ==
    TableCompleted =>
       /\ Cardinality(Lines(result.out, "actions = [\n")) = 1
       /\ result.out[ActionsListEnd] = "]\n\n"
       /\ \A p \in (LineOf(result.out, "actions = [\n") + 1)
                       ..(ActionsListEnd - 1) :
             result.out[p] # "]\n\n"
       /\ \A i \in DOMAIN TableStates :
             /\ IF TableStates[i].epsilon = <<>>
                THEN /\ ActionsEntry(i)
                          = "    " \o repr_row(TableStates[i].row) \o ",\n"
                     /\ Lines(result.out, ProcedureHead(i)) = {}
                ELSE /\ ActionsEntry(i)
                          = "    state_" \o str_of_int(i - 1) \o "_actions,\n"
                     /\ Cardinality(Lines(result.out, ProcedureHead(i))) = 1
                     /\ LineOf(result.out, ProcedureHead(i))
                          < LineOf(result.out, "actions = [\n")

C28_Witness ==
    /\ TableCompleted
    /\ Len(TableStates) = 2
    /\ TableStates[1].epsilon = <<>> /\ TableStates[1].row # <<>>
    /\ TableStates[2].epsilon # <<>>
    /\ ActionsEntry(2) = "    state_1_actions,\n"

\* the number a string of digits stands for
RECURSIVE int_of(_)
int_of(s) ==
    IF s = "" THEN 0
    ELSE 10 * int_of(SubSeq(s, 1, Len(s) - 1))
            + (IndexIn(CharAt(s, Len(s)), "0123456789") - 1)

ends_with(s, suffix) ==
    Len(s) >= Len(suffix)
       /\ SubSeq(s, Len(s) - Len(suffix) + 1, Len(s)) = suffix

RECURSIVE lstrip(_)
lstrip(s) ==
    IF s # "" /\ CharAt(s, 1) = " " THEN lstrip(SubSeq(s, 2, Len(s))) ELSE s

\* s without the given prefix and suffix
Between(s, prefix, suffix) ==
    SubSeq(s, Len(prefix) + 1, Len(s) - Len(suffix))

\* the code of the edges of the procedure of the i-th state: the lines after
\* "value = None", cut after every return
ProcedureLines(i) ==
    LET first == LineOf(result.out, ProcedureHead(i)) + 3
        last == CHOOSE p \in first..Len(result.out) :
                   /\ result.out[p] = "\n"
                   /\ \A q \in first..(p - 1) : result.out[q] # "\n"
    IN SubSeq(result.out, first, last - 1)

EdgeCode(i, k) ==
    LET lines == ProcedureLines(i)
        returns == {p \in DOMAIN lines : ends_with(lines[p], "return\n")}
        end == CHOOSE p \in returns :
                  Cardinality({q \in returns : q <= p}) = k
        begin == IF k = 1 THEN 1
                 ELSE 1 + CHOOSE p \in returns :
                             Cardinality({q \in returns : q <= p}) = k - 1
    IN SubSeq(lines, begin, end)

\* Python's stack[-n:] and stack[:-n] for n > 0
Last(stack, n) ==
    IF n >= Len(stack) THEN stack
    ELSE SubSeq(stack, Len(stack) - n + 1, Len(stack))

AllButLast(stack, n) ==
    IF n >= Len(stack) THEN <<>> ELSE SubSeq(stack, 1, Len(stack) - n)

\* what one line of generated code does to the parser
Execute(parser, line) ==
    LET stmt == lstrip(line)
    IN IF starts_with(stmt, "replay = [StateTermValue(0, ")
       THEN [parser EXCEPT !.replay =
                <<[term |-> Between(stmt, "replay = [StateTermValue(0, ",
                                    ", value)]\n"),
                   value |-> "value"]>>]
       ELSE IF starts_with(stmt, "replay = replay + parser.stack[-")
       THEN [parser EXCEPT !.replay =
                @ \o Last(parser.stack,
                          int_of(Between(stmt,
                                         "replay = replay + parser.stack[-",
                                         ":]\n")))]
       ELSE IF starts_with(stmt, "parser.stack = parser.stack[:-")
       THEN [parser EXCEPT !.stack =
                AllButLast(@, int_of(Between(stmt,
                                             "parser.stack = parser.stack[:-",
                                             "]\n"))),
                           !.assigned = TRUE]
       ELSE IF stmt = "parser.shift_list(replay, lexer)\n"
       THEN [parser EXCEPT !.shifted = Append(@, [list |-> parser.replay,
                                                  stack |-> parser.stack])]
       ELSE IF starts_with(stmt, "parser.stack.append(")
       THEN [parser EXCEPT !.appended = TRUE]
       ELSE parser

RECURSIVE Run(_, _)
Run(parser, lines) ==
    IF lines = <<>> THEN parser
    ELSE Run(Execute(parser, lines[1]), Tail(lines))

\* a stack deep enough for every Reduce of the tables
SomeStack == [i \in 1..(MaxPop + MaxReplay + 1) |-> "entry " \o str_of_int(i)]

AfterEdge(i, k) ==
    Run([stack |-> SomeStack, replay |-> <<>>, shifted |-> <<>>,
         appended |-> FALSE, assigned |-> FALSE],
        EdgeCode(i, k))

\* the Reduce an edge ends in, if any
ReduceOf(term) ==
    IF term.kind = "Seq" THEN term.actions[Len(term.actions)] ELSE term

ReduceEdges ==
    {<<i, k>> \in (DOMAIN TableStates) \X (1..2) :
        /\ k \in DOMAIN TableStates[i].epsilon
        /\ ReduceOf(TableStates[i].epsilon[k][1]).kind = "Reduce"}

\* C29: the code of a Reduce with pop and replay takes pop + replay entries
\* off the stack and then hands to shift_list the reduced value, tagged with
\* the nonterminal, followed by the replay entries that were on top, in
\* their order; a Reduce with pop + replay = 0 does not assign the stack;
\* nothing is appended to the stack after a Reduce.
C29_ReduceCodePopsThenReplays ==
    TableCompleted =>
       \A edge \in ReduceEdges :
          LET act == ReduceOf(TableStates[edge[1]].epsilon[edge[2]][1])
              after == AfterEdge(edge[1], edge[2])
              depth == Len(SomeStack)
          IN /\ after.stack
                   = SubSeq(SomeStack, 1, depth - (act.pop + act.replay))
             /\ after.shifted
                   = <<[list |-> <<[term |-> repr(act.nt), value |-> "value"]>>
                                   \o SubSeq(SomeStack, depth - act.replay + 1,
                                             depth),
                        stack |-> after.stack]>>
             /\ act.pop + act.replay = 0 => ~after.assigned
             /\ ~after.appended

C29_Witness ==
    /\ TableCompleted
    /\ \E edge \in ReduceEdges :
          LET act == ReduceOf(TableStates[edge[1]].epsilon[edge[2]][1])
          IN /\ act.pop = 1 /\ act.replay = 2
             /\ Len(AfterEdge(edge[1], edge[2]).shifted[1].list) = 3
             /\ Len(AfterEdge(edge[1], edge[2]).stack) = Len(SomeStack) - 3

(***************************************************************************)
(* What the claims about Grammar.intern speak of.                          *)
(***************************************************************************)
InternReturned == pc = "intern" /\ call # Unset

OtherGrammar(g) == 3 - g

\* the first object passed to intern of grammar g that equals obj
FirstEqualInterned(g, obj) ==
    grammar[g].interned[CHOOSE i \in DOMAIN grammar[g].interned :
                           /\ py_eq(grammar[g].interned[i], obj)
                           /\ \A j \in 1..(i - 1) :
                                 ~py_eq(grammar[g].interned[j], obj)]

\* on every grammar, after the calls made so far: intern(x) and then
\* intern(y) return one object exactly when x == y; intern(intern(x)) is
\* intern(x); the object the last call returned equals its argument and is
\* the first equal object ever passed to intern of that grammar
InternLaws ==
    /\ \A g \in GrammarIds, x \in Objects, y \in Objects :
          LET first == intern(grammar[g].cache, x)
              second == intern(first.cache, y)
              again == intern(first.cache, first.result)
          IN /\ (first.result = second.result) <=> py_eq(x, y)
             /\ again.result = first.result
             /\ py_eq(first.result, x)
    /\ InternReturned =>
          /\ py_eq(result, call.obj)
          /\ result = FirstEqualInterned(call.grammar, call.obj)

\* C24 as stated: the laws of intern, and a grammar never returns an object
\* that another grammar has interned.
C24_NeverReturnsObjectOfOtherGrammar ==
    /\ InternLaws
    /\ InternReturned =>
          \A i \in DOMAIN grammar[OtherGrammar(call.grammar)].cache :
             grammar[OtherGrammar(call.grammar)].cache[i].def # result

\* C24, amended: the laws of intern, and the cache of a grammar holds only
\* objects passed to intern of that grammar, so that what intern returns is
\* its argument or an object passed to it earlier, whatever the other
\* grammar has interned.
C24_InternSharesPerGrammar ==
    /\ InternLaws
    /\ \A g \in GrammarIds :
          \A i \in DOMAIN grammar[g].cache :
             /\ grammar[g].cache[i].key = grammar[g].cache[i].def
             /\ grammar[g].cache[i].def \in Range(grammar[g].interned)
    /\ InternReturned => result \in Range(grammar[call.grammar].interned)

C24_Witness ==
    /\ InternReturned
    /\ call.grammar = 2
    /\ Len(grammar[2].interned) = 2
    /\ result # call.obj
    /\ result.value # call.obj.value
    /\ \E i \in DOMAIN grammar[1].cache : grammar[1].cache[i].def = call.obj

(***************************************************************************)
(* C25: with_nonterminals returns a Grammar with the nt_types and the      *)
(* methods of the original, whatever types.infer_types would return, with  *)
(* the goals and the variable terminals of the original and with the       *)
(* nonterminals of the new mapping; the original keeps its nonterminals,   *)
(* terminals, init_nts and type information.                               *)
(***************************************************************************)
Rebuilt == pc = "rebuilt"

\* the original as with_nonterminals found it: the arguments of the call
\* were taken from it
OriginalAsBefore ==
    /\ self.kind = "Grammar"
    /\ goal_nts = PyList(goals_of(self))
    /\ variable_terminals = self.variable_terminals
    /\ type_info.nt_types = self.nt_types
    /\ type_info.methods = self.methods
    /\ \E form \in 1..3 : nonterminals = WithInitForm(self.nonterminals, form)

C25_RebuiltKeepsTypeInfo ==
    Rebuilt =>
       /\ grammar.nt_types = self.nt_types
       /\ grammar.methods = self.methods
       /\ goals_of(grammar) = goals_of(self)
       /\ grammar.variable_terminals = self.variable_terminals
       /\ grammar.nonterminals = nonterminals
       /\ OriginalAsBefore

C25_Witness ==
    /\ Rebuilt
    /\ self.nt_types = "given nt_types"
    /\ grammar.nt_types = "given nt_types"
    /\ grammar.nonterminals # self.nonterminals
    /\ Len(goals_of(grammar)) = 2

====
